---- MODULE Spec2Model ----
(***************************************************************************)
(* CPU-profile call-stack analysis (scripts/analyze-cpu-profile.js).       *)
(*                                                                         *)
(* Conventions of the translation:                                         *)
(*  - JavaScript strings are sequences of one-character strings, so that   *)
(*    split('/'), template literals and join(' -> ') are computed.         *)
(*  - JavaScript arrays are sequences; array index i is position i + 1.    *)
(*  - A Map is a function whose DOMAIN is the set of its keys; Map         *)
(*    iteration order is kept where the code depends on it (stackMap is    *)
(*    a sequence of key/entry pairs in insertion order).                   *)
(*  - callFrame.lineNumber || '' and columnNumber || '' turn 0 into the    *)
(*    empty string; a frame's line/column 0 stands for '' (a frame never   *)
(*    holds the number 0).                                                 *)
(***************************************************************************)
EXTENDS Integers, Sequences, FiniteSets, TLC

VARIABLES profile, target, pc, callStacks, aggregated, walk, descend, run,
          deletion, creation, packageJson, verification

vars == <<profile, target, pc, callStacks, aggregated, walk, descend, run,
          deletion, creation, packageJson, verification>>

\* the variables of the profile analyzer
analyzerVars == <<profile, target, callStacks, aggregated, walk, descend, run>>

\* a script that is not run in a specification
NoRun == [kind |-> "none"]

OtherScriptsIdle ==
  /\ deletion = NoRun
  /\ creation = NoRun
  /\ packageJson = NoRun
  /\ verification = NoRun

(***************************************************************************)
(* Bounds of the model.                                                    *)
(***************************************************************************)
NumNodes == 3
MaxSamples == 2
MaxStacks == 3
MaxWalkDepth == 3

(***************************************************************************)
(* Strings.                                                                *)
(***************************************************************************)
DigitChars == <<"0", "1", "2", "3", "4", "5", "6", "7", "8", "9">>

RECURSIVE NumToStr(_)
NumToStr(n) ==
  IF n < 10 THEN <<DigitChars[n + 1]>>
  ELSE NumToStr(n \div 10) \o <<DigitChars[(n % 10) + 1]>>

StrAnonymous == <<"(", "a", "n", "o", "n", "y", "m", "o", "u", "s", ")">>
StrNative == <<"(", "n", "a", "t", "i", "v", "e", ")">>
StrArrow == <<" ", "-", ">", " ">>

SetMax(S) == CHOOSE x \in S : \A y \in S : y <= x

\* url.split('/').pop()
SplitPop(url) ==
  LET slashes == {i \in 1..Len(url) : url[i] = "/"}
  IN IF slashes = {} THEN url ELSE SubSeq(url, SetMax(slashes) + 1, Len(url))

\* f.url ? f.url.split('/').pop() : '(native)'
UrlShort(url) == IF url # <<>> THEN SplitPop(url) ELSE StrNative

\* Array.prototype.join: the parts with sep between neighbours
RECURSIVE Join(_, _)
Join(parts, sep) ==
  IF parts = <<>> THEN <<>>
  ELSE IF Len(parts) = 1 THEN parts[1]
  ELSE LET half == Len(parts) \div 2
       IN Join(SubSeq(parts, 1, half), sep) \o sep
            \o Join(SubSeq(parts, half + 1, Len(parts)), sep)

(***************************************************************************)
(* buildNodeTree                                                           *)
(***************************************************************************)
MapHas(m, k) == k \in DOMAIN m

\* the (parent i, position j) pairs of all children entries
EdgeSlots(nodes) ==
  UNION {{<<i, j>> : j \in 1..Len(nodes[i + 1].children)} : i \in 0..(Len(nodes) - 1)}

\* slot a is visited before slot b by the two nested loops
SlotBefore(a, b) == a[1] < b[1] \/ (a[1] = b[1] /\ a[2] < b[2])

\* the edges [parent, child] in the order the nested loops of buildNodeTree push them
EdgeSeq(nodes) ==
  LET slots == EdgeSlots(nodes)
  IN [p \in 1..Cardinality(slots) |->
        LET slot == CHOOSE e \in slots : Cardinality({f \in slots : SlotBefore(f, e)}) = p - 1
        IN [parent |-> slot[1], child |-> nodes[slot[1] + 1].children[slot[2]]]]

\* parentMap: child id -> parents in push order; childMap: node -> children in push order
\* parentMap keeps only the parent that created the entry: later parents of the
\* same child are not pushed
BuildNodeTree_FirstParentOnly(nodes) ==
  LET edges == EdgeSeq(nodes)
      ParentsOf(c) == LET mine == SelectSeq(edges, LAMBDA e : e.child = c)
                      IN <<mine[1].parent>>
      ChildrenOfNode(i) == LET mine == SelectSeq(edges, LAMBDA e : e.parent = i)
                           IN [q \in 1..Len(mine) |-> mine[q].child]
  IN [parentMap |-> [c \in {edges[q].child : q \in 1..Len(edges)} |-> ParentsOf(c)],
      childMap |-> [i \in {edges[q].parent : q \in 1..Len(edges)} |-> ChildrenOfNode(i)]]

BuildNodeTree(nodes) ==
  LET edges == EdgeSeq(nodes)
      ParentsOf(c) == LET mine == SelectSeq(edges, LAMBDA e : e.child = c)
                      IN [q \in 1..Len(mine) |-> mine[q].parent]
      ChildrenOfNode(i) == LET mine == SelectSeq(edges, LAMBDA e : e.parent = i)
                           IN [q \in 1..Len(mine) |-> mine[q].child]
  IN [parentMap |-> [c \in {edges[q].child : q \in 1..Len(edges)} |-> ParentsOf(c)],
      childMap |-> [i \in {edges[q].parent : q \in 1..Len(edges)} |-> ChildrenOfNode(i)]]

(***************************************************************************)
(* getCallStackUp                                                          *)
(***************************************************************************)
DefaultMaxDepth == 20

MakeFrame(nodes, current) ==
  LET node == nodes[current + 1]
  IN [index |-> current,
      function |-> IF node.functionName # <<>> THEN node.functionName ELSE StrAnonymous,
      url |-> node.url,
      line |-> node.lineNumber,
      column |-> node.columnNumber]

WalkStart(nodeIndex) ==
  [stack |-> <<>>, current |-> nodeIndex, depth |-> 0, visited |-> {}, broke |-> FALSE]

\* the while condition without the visited test
WalkCond_NoVisited(w, maxDepth) ==
  /\ w.current >= 0
  /\ w.depth < maxDepth

\* the while condition with the depth test off by one
WalkCond_DepthInclusive(w, maxDepth) ==
  /\ w.current >= 0
  /\ w.depth <= maxDepth
  /\ w.current \notin w.visited

\* the while condition (current is always a number here)
WalkCond(w, maxDepth) ==
  /\ w.current >= 0
  /\ w.depth < maxDepth
  /\ w.current \notin w.visited

\* parents = parentMap.get(current); parents && parents.length > 0 ? parents[0]
WalkParents(parentMap, current) ==
  IF MapHas(parentMap, current) THEN parentMap[current] ELSE <<>>

\* the body following the last recorded parent instead of the first
WalkBody_LastParent(nodes, parentMap, w) ==
  LET visited2 == w.visited \cup {w.current}
      stack2 == IF w.current < Len(nodes)
                THEN Append(w.stack, MakeFrame(nodes, w.current))
                ELSE w.stack
      parents == WalkParents(parentMap, w.current)
  IN IF Len(parents) > 0
     THEN [stack |-> stack2, current |-> parents[Len(parents)], depth |-> w.depth + 1,
           visited |-> visited2, broke |-> FALSE]
     ELSE [stack |-> stack2, current |-> w.current, depth |-> w.depth,
           visited |-> visited2, broke |-> TRUE]

\* one iteration of the while body; broke records the break
WalkBody(nodes, parentMap, w) ==
  LET visited2 == w.visited \cup {w.current}
      stack2 == IF w.current < Len(nodes)
                THEN Append(w.stack, MakeFrame(nodes, w.current))
                ELSE w.stack
      parents == WalkParents(parentMap, w.current)
  IN IF Len(parents) > 0
     THEN [stack |-> stack2, current |-> parents[1], depth |-> w.depth + 1,
           visited |-> visited2, broke |-> FALSE]
     ELSE [stack |-> stack2, current |-> w.current, depth |-> w.depth,
           visited |-> visited2, broke |-> TRUE]

RECURSIVE WalkLoop(_, _, _, _)
WalkLoop(nodes, parentMap, w, maxDepth) ==
  IF ~w.broke /\ WalkCond(w, maxDepth)
  THEN WalkLoop(nodes, parentMap, WalkBody(nodes, parentMap, w), maxDepth)
  ELSE w

GetCallStackUp(nodes, parentMap, nodeIndex, maxDepth) ==
  WalkLoop(nodes, parentMap, WalkStart(nodeIndex), maxDepth).stack

(***************************************************************************)
(* buildCallStack                                                          *)
(***************************************************************************)
\* childMap.get(nodeIndex) || []
ChildrenOf(childMap, nodeIndex) ==
  IF MapHas(childMap, nodeIndex) THEN childMap[nodeIndex] ELSE <<>>

\* the recursive closure shared by findDescendants and collectDescendants:
\* seen is the Set being filled, j the position in the children loop
RECURSIVE DescendLoop(_, _, _, _)
DescendLoop(childMap, seen, children, j) ==
  IF j > Len(children) THEN seen
  ELSE IF children[j] \in seen THEN DescendLoop(childMap, seen, children, j + 1)
  ELSE DescendLoop(childMap,
         DescendLoop(childMap, seen \cup {children[j]}, ChildrenOf(childMap, children[j]), 1),
         children, j + 1)

\* targetDescendants = new Set([targetNodeIndex]); findDescendants(targetNodeIndex)
FindDescendants(childMap, targetNodeIndex) ==
  DescendLoop(childMap, {targetNodeIndex}, ChildrenOf(childMap, targetNodeIndex), 1)

\* the callee search started with the target already in the set
CollectDescendants_SeedTarget(childMap, targetNodeIndex) ==
  DescendLoop(childMap, {targetNodeIndex}, ChildrenOf(childMap, targetNodeIndex), 1)

\* descendants = new Set(); collectDescendants(targetNodeIndex)
CollectDescendants(childMap, targetNodeIndex) ==
  DescendLoop(childMap, {}, ChildrenOf(childMap, targetNodeIndex), 1)

\* stack.some(frame => frame.index === targetNodeIndex)
StackHas(stack, targetNodeIndex) ==
  \E k \in 1..Len(stack) : stack[k].index = targetNodeIndex

\* stack.findIndex(frame => frame.index === targetNodeIndex), 0-based, -1 if none
FindIndex(stack, targetNodeIndex) ==
  LET hits == {k \in 1..Len(stack) : stack[k].index = targetNodeIndex}
  IN IF hits = {} THEN -1 ELSE (CHOOSE k \in hits : \A h \in hits : k <= h) - 1

Reverse(s) == [k \in 1..Len(s) |-> s[Len(s) + 1 - k]]

\* timeDeltas[i + 1] || 0: the delta of the next sample
TimeDeltaAt_OffByOne(timeDeltas, i) ==
  IF i + 1 < Len(timeDeltas) THEN timeDeltas[i + 2] ELSE 0

\* timeDeltas[i] || 0
TimeDeltaAt(timeDeltas, i) == IF i < Len(timeDeltas) THEN timeDeltas[i + 1] ELSE 0

\* a sample inside the descendant set is taken without verifying that the target
\* is in its walk
SampleStep_TrustDescendants(prof, maps, targetDescendants, targetNodeIndex, acc, i) ==
  LET sampleNodeIndex == prof.samples[i + 1]
      fullStack == GetCallStackUp(prof.nodes, maps.parentMap, sampleNodeIndex, DefaultMaxDepth)
      targetIndex == FindIndex(fullStack, targetNodeIndex)
      relevantStack == IF targetIndex = -1 THEN Reverse(fullStack)
                       ELSE Reverse(SubSeq(fullStack, 1, targetIndex + 1))
  IN IF sampleNodeIndex \notin targetDescendants THEN acc
     ELSE IF Len(relevantStack) > 0
          THEN Append(acc, [stack |-> relevantStack,
                            timeDelta |-> TimeDeltaAt(prof.timeDeltas, i),
                            sampleIndex |-> i])
          ELSE acc

\* one iteration of the sample loop: the call stacks after sample position i
SampleStep(prof, maps, targetDescendants, targetNodeIndex, acc, i) ==
  LET sampleNodeIndex == prof.samples[i + 1]
      stack == GetCallStackUp(prof.nodes, maps.parentMap, sampleNodeIndex, DefaultMaxDepth)
      skipped == sampleNodeIndex \notin targetDescendants
                   /\ ~StackHas(stack, targetNodeIndex)
      fullStack == GetCallStackUp(prof.nodes, maps.parentMap, sampleNodeIndex, DefaultMaxDepth)
      targetIndex == FindIndex(fullStack, targetNodeIndex)
      relevantStack == Reverse(SubSeq(fullStack, 1, targetIndex + 1))
  IN IF skipped THEN acc
     ELSE IF targetIndex = -1 THEN acc
     ELSE IF Len(relevantStack) > 0
          THEN Append(acc, [stack |-> relevantStack,
                            timeDelta |-> TimeDeltaAt(prof.timeDeltas, i),
                            sampleIndex |-> i])
          ELSE acc

RECURSIVE SampleLoop(_, _, _, _, _, _)
SampleLoop(prof, maps, targetDescendants, targetNodeIndex, acc, i) ==
  IF i >= Len(prof.samples) THEN acc
  ELSE SampleLoop(prof, maps, targetDescendants, targetNodeIndex,
                  SampleStep(prof, maps, targetDescendants, targetNodeIndex, acc, i), i + 1)

\* profile.nodes || [], profile.samples || [], profile.timeDeltas || []: a profile
\* is a record that may lack any of the three fields
ProfileNodes(prof) == IF "nodes" \in DOMAIN prof THEN prof.nodes ELSE <<>>
ProfileSamples(prof) == IF "samples" \in DOMAIN prof THEN prof.samples ELSE <<>>
ProfileTimeDeltas(prof) == IF "timeDeltas" \in DOMAIN prof THEN prof.timeDeltas ELSE <<>>

\* the three arrays as the functions read them
ProfileArrays(prof) ==
  [nodes |-> ProfileNodes(prof), samples |-> ProfileSamples(prof),
   timeDeltas |-> ProfileTimeDeltas(prof)]

BuildCallStack(prof, targetNodeIndex) ==
  LET arrays == ProfileArrays(prof)
      maps == BuildNodeTree(arrays.nodes)
      targetDescendants == FindDescendants(maps.childMap, targetNodeIndex)
  IN SampleLoop(arrays, maps, targetDescendants, targetNodeIndex, <<>>, 0)

(***************************************************************************)
(* aggregateCallStacks                                                     *)
(***************************************************************************)
\* `${f.function}@${urlShort}:${f.line || '?'}`
FrameKey(f) ==
  f.function \o <<"@">> \o UrlShort(f.url) \o <<":">>
    \o (IF f.line # 0 THEN NumToStr(f.line) ELSE <<"?">>)

\* stack.slice(0, -1)
Callers(stack) == SubSeq(stack, 1, Len(stack) - 1)

\* callers.map(...).join(' -> ')
StackKey(callers) ==
  Join([k \in 1..Len(callers) |-> FrameKey(callers[k])], StrArrow)

\* position of key in the insertion-ordered stackMap, 0 if absent
MapIndex(stackMap, key) ==
  LET hits == {k \in 1..Len(stackMap) : stackMap[k].key = key}
  IN IF hits = {} THEN 0 ELSE CHOOSE k \in hits : TRUE

\* totalTime is overwritten instead of summed
AggregateStep_NoSum(stackMap, cs) ==
  LET callers == Callers(cs.stack)
      stackKey == StackKey(callers)
      inserted == IF MapIndex(stackMap, stackKey) = 0
                  THEN Append(stackMap,
                         [key |-> stackKey,
                          entry |-> [stack |-> callers, count |-> 0,
                                     totalTime |-> 0, samples |-> <<>>]])
                  ELSE stackMap
      at == MapIndex(inserted, stackKey)
  IN [inserted EXCEPT ![at].entry =
        [stack |-> @.stack,
         count |-> @.count + 1,
         totalTime |-> cs.timeDelta,
         samples |-> Append(@.samples, cs.timeDelta)]]

\* one iteration of the for-of loop over callStacks
AggregateStep(stackMap, cs) ==
  LET callers == Callers(cs.stack)
      stackKey == StackKey(callers)
      inserted == IF MapIndex(stackMap, stackKey) = 0
                  THEN Append(stackMap,
                         [key |-> stackKey,
                          entry |-> [stack |-> callers, count |-> 0,
                                     totalTime |-> 0, samples |-> <<>>]])
                  ELSE stackMap
      at == MapIndex(inserted, stackKey)
  IN [inserted EXCEPT ![at].entry =
        [stack |-> @.stack,
         count |-> @.count + 1,
         totalTime |-> @.totalTime + cs.timeDelta,
         samples |-> Append(@.samples, cs.timeDelta)]]

RECURSIVE AggregateLoop(_, _, _)
AggregateLoop(stackMap, stacks, k) ==
  IF k > Len(stacks) THEN stackMap
  ELSE AggregateLoop(AggregateStep(stackMap, stacks[k]), stacks, k + 1)

\* (a, b) => b.count - a.count: no tie-break on totalTime
CompareEntries_CountOnly(a, b) == b.count - a.count

\* (a, b) => b.count - a.count || b.totalTime - a.totalTime
CompareEntries(a, b) ==
  IF b.count - a.count # 0 THEN b.count - a.count ELSE b.totalTime - a.totalTime

\* Array.prototype.sort is stable: x goes before the first element that must follow it
RECURSIVE SortInsert(_, _)
SortInsert(sorted, x) ==
  IF sorted = <<>> THEN <<x>>
  ELSE IF CompareEntries(sorted[1], x) > 0 THEN <<x>> \o sorted
  ELSE <<sorted[1]>> \o SortInsert(Tail(sorted), x)

RECURSIVE SortEntries(_, _, _)
SortEntries(values, sorted, k) ==
  IF k > Len(values) THEN sorted
  ELSE SortEntries(values, SortInsert(sorted, values[k]), k + 1)

AggregateCallStacks(stacks) ==
  LET stackMap == AggregateLoop(<<>>, stacks, 1)
      values == [k \in 1..Len(stackMap) |-> stackMap[k].entry]
  IN SortEntries(values, <<>>, 1)

(***************************************************************************)
(* parseArgs.  The command line is a sequence of strings (process.argv     *)
(* from position 2); the values given to --top are decimal numerals.       *)
(***************************************************************************)
StrOptFunction == <<"-", "-", "f", "u", "n", "c", "t", "i", "o", "n">>
StrOptFile == <<"-", "-", "f", "i", "l", "e">>
StrOptTop == <<"-", "-", "t", "o", "p">>
StrOptHelp == <<"-", "-", "h", "e", "l", "p">>
StrOptH == <<"-", "h">>

\* a string is truthy unless it is empty; null is written as the empty string
IsSet(str) == str # <<>>

DigitValue(ch) == CHOOSE d \in 0..9 : DigitChars[d + 1] = ch

\* parseInt(str, 10) of a decimal numeral
RECURSIVE ParseInt(_)
ParseInt(str) ==
  IF str = <<>> THEN 0
  ELSE 10 * ParseInt(SubSeq(str, 1, Len(str) - 1)) + DigitValue(str[Len(str)])

\* top: 20
DefaultTop == 20

DefaultOptions == [function |-> <<>>, file |-> <<>>, top |-> DefaultTop]

\* args[i + 1], undefined (falsy) past the end
ArgAt(args, i) == IF i + 1 <= Len(args) THEN args[i + 1] ELSE <<>>

\* the for loop of parseArgs from position i; exit is "help" once --help is met
RECURSIVE ParseLoop(_, _, _)
ParseLoop(args, i, options) ==
  IF i >= Len(args) THEN [options |-> options, exit |-> "none"]
  ELSE IF ArgAt(args, i) = StrOptFunction /\ IsSet(ArgAt(args, i + 1))
       THEN ParseLoop(args, i + 2, [options EXCEPT !.function = ArgAt(args, i + 1)])
  ELSE IF ArgAt(args, i) = StrOptFile /\ IsSet(ArgAt(args, i + 1))
       THEN ParseLoop(args, i + 2, [options EXCEPT !.file = ArgAt(args, i + 1)])
  ELSE IF ArgAt(args, i) = StrOptTop /\ IsSet(ArgAt(args, i + 1))
       THEN ParseLoop(args, i + 2, [options EXCEPT !.top = ParseInt(ArgAt(args, i + 1))])
  ELSE IF ArgAt(args, i) = StrOptHelp \/ ArgAt(args, i) = StrOptH
       THEN [options |-> options, exit |-> "help"]
  ELSE ParseLoop(args, i + 1, options)

\* parseArgs: the options, or the exit taken (help: exit 0, usage: exit 1)
ParseArgs(args) ==
  LET parsed == ParseLoop(args, 1, DefaultOptions)
  IN IF parsed.exit = "help" THEN parsed
     ELSE IF ~IsSet(ArgAt(args, 0)) THEN [options |-> parsed.options, exit |-> "usage"]
     ELSE parsed

(***************************************************************************)
(* findTargetNodes and the ranking of nodes by hit count.                  *)
(***************************************************************************)
\* String.prototype.includes
Includes(str, sub) ==
  \E k \in 0..(Len(str) - Len(sub)) : SubSeq(str, k + 1, k + Len(sub)) = sub

\* Array.prototype.sort with (a, b) => b.key - a.key: descending by key, and
\* stable, so equal keys keep their order
SortDescBy(seq, key) ==
  LET Before(i) == Cardinality({j \in 1..Len(seq) :
                                  \/ seq[j][key] > seq[i][key]
                                  \/ (seq[j][key] = seq[i][key] /\ j < i)})
  IN [p \in 1..Len(seq) |-> seq[CHOOSE i \in 1..Len(seq) : Before(i) = p - 1]]

\* Array.prototype.slice(0, n) for n >= 0
SliceTo(seq, n) == SubSeq(seq, 1, IF n < Len(seq) THEN n ELSE Len(seq))

\* the file filter is not applied
FindTargetNodes_IgnoreFile(prof, functionName, filePath) ==
  LET nodes == ProfileNodes(prof)
      Matches(i) ==
        LET node == nodes[i + 1]
        IN /\ \/ ~IsSet(functionName)
              \/ node.functionName = functionName
              \/ Includes(node.functionName, functionName)
           /\ node.hitCount > 0
      hits == SelectSeq([k \in 1..Len(nodes) |-> k - 1], Matches)
  IN SortDescBy([k \in 1..Len(hits) |->
                   [index |-> hits[k], node |-> nodes[hits[k] + 1],
                    hitCount |-> nodes[hits[k] + 1].hitCount]],
                "hitCount")

\* the nodes matching both filters with hitCount > 0, most hits first
FindTargetNodes(prof, functionName, filePath) ==
  LET nodes == ProfileNodes(prof)
      Matches(i) ==
        LET node == nodes[i + 1]
        IN /\ \/ ~IsSet(functionName)
              \/ node.functionName = functionName
              \/ Includes(node.functionName, functionName)
           /\ ~IsSet(filePath) \/ Includes(node.url, filePath)
           /\ node.hitCount > 0
      hits == SelectSeq([k \in 1..Len(nodes) |-> k - 1], Matches)
  IN SortDescBy([k \in 1..Len(hits) |->
                   [index |-> hits[k], node |-> nodes[hits[k] + 1],
                    hitCount |-> nodes[hits[k] + 1].hitCount]],
                "hitCount")

\* .slice(0, 10) of the report without a function filter
TopFunctionsLimit == 10

\* the nodes are selected by the samples that landed on them
TopFunctions_BySamples(prof, topN) ==
  LET nodes == ProfileNodes(prof)
      hits == SelectSeq([k \in 1..Len(nodes) |-> k - 1],
                        LAMBDA i : \E q \in 1..Len(ProfileSamples(prof)) :
                                     ProfileSamples(prof)[q] = i)
  IN SliceTo(SortDescBy([k \in 1..Len(hits) |->
                           [index |-> hits[k], hitCount |-> nodes[hits[k] + 1].hitCount]],
                        "hitCount"),
             TopFunctionsLimit)

\* the report is cut at the --top value
TopFunctions_CutAtTop(prof, topN) ==
  LET nodes == ProfileNodes(prof)
      hits == SelectSeq([k \in 1..Len(nodes) |-> k - 1], LAMBDA i : nodes[i + 1].hitCount > 0)
  IN SliceTo(SortDescBy([k \in 1..Len(hits) |->
                           [index |-> hits[k], hitCount |-> nodes[hits[k] + 1].hitCount]],
                        "hitCount"),
             topN)

\* nodes.map(...).filter(n => n.hitCount > 0).sort(...).slice(0, 10); topN is
\* not read here
TopFunctions(prof, topN) ==
  LET nodes == ProfileNodes(prof)
      hits == SelectSeq([k \in 1..Len(nodes) |-> k - 1], LAMBDA i : nodes[i + 1].hitCount > 0)
  IN SliceTo(SortDescBy([k \in 1..Len(hits) |->
                           [index |-> hits[k], hitCount |-> nodes[hits[k] + 1].hitCount]],
                        "hitCount"),
             TopFunctionsLimit)

(***************************************************************************)
(* analyzeChildren.                                                        *)
(***************************************************************************)
\* number of positions of samples that hold id
CountIn(samples, id) == Cardinality({i \in 1..Len(samples) : samples[i] = id})

\* the keys of descendantCounts in insertion order: the sampled descendants by
\* their first position in samples
CountedIds(samples, descendants) ==
  LET firsts == SelectSeq([k \in 1..Len(samples) |-> k],
                          LAMBDA i : /\ samples[i] \in descendants
                                     /\ \A j \in 1..(i - 1) : samples[j] # samples[i])
  IN [k \in 1..Len(firsts) |-> samples[firsts[k]]]

\* one element of topDescendants
ChildRow(nodes, nodeIndex, count) ==
  LET node == nodes[nodeIndex + 1]
  IN [index |-> nodeIndex,
      function |-> IF node.functionName # <<>> THEN node.functionName ELSE StrAnonymous,
      url |-> node.url,
      line |-> node.lineNumber,
      hitCount |-> node.hitCount,
      sampleCount |-> count]

\* the descendant counts mapped, sorted and cut; threw: nodes[nodeIndex] is
\* undefined for a counted id outside the node table, and reading its callFrame
\* throws a TypeError out of analyzeChildren
AnalyzeChildren(prof, targetNodeIndex, topN) ==
  LET arrays == ProfileArrays(prof)
      descendants == CollectDescendants(BuildNodeTree(arrays.nodes).childMap, targetNodeIndex)
      ids == CountedIds(arrays.samples, descendants)
  IN IF \E k \in 1..Len(ids) : ids[k] >= Len(arrays.nodes)
     THEN [threw |-> TRUE, rows |-> <<>>]
     ELSE [threw |-> FALSE,
           rows |-> SliceTo(SortDescBy([k \in 1..Len(ids) |->
                                          ChildRow(arrays.nodes, ids[k],
                                                   CountIn(arrays.samples, ids[k]))],
                                       "sampleCount"),
                            topN)]

(***************************************************************************)
(* The report.  A console.log line is a record: kind names the line and    *)
(* the other fields are the values printed in it.  Numbers printed with    *)
(* toFixed(2) are held in hundredths.                                      *)
(***************************************************************************)
\* a / b rounded to the nearest integer, halves up (a >= 0, b > 0)
RoundDiv(a, b) == (2 * a + b) \div (2 * b)

\* ((a / b) * 100).toFixed(2), in hundredths of a percent
Percent2(a, b) == RoundDiv(a * 10000, b)

\* (a / b).toFixed(2), in hundredths
Fixed2(a, b) == RoundDiv(a * 100, b)

\* reduce((sum, x) => sum + Val(x), 0)
RECURSIVE SumFrom(_, _)
SumFrom(nums, k) == IF k > Len(nums) THEN 0 ELSE nums[k] + SumFrom(nums, k + 1)

SumSeq(seq, key) == SumFrom([k \in 1..Len(seq) |-> seq[k][key]], 1)

\* the headline of formatStackEntry and the frames printed under it
FormatStackEntry(entry, index, maxCount) ==
  [kind |-> "entry", rank |-> index + 1, count |-> entry.count,
   percentage |-> Percent2(entry.count, maxCount),
   avgTime |-> Fixed2(entry.totalTime, entry.count * 1000),
   totalTime |-> Fixed2(entry.totalTime, 1000),
   stack |-> entry.stack]

\* Math.min(topN, aggregated.length)
Shown(topN, entries) == IF topN < Len(entries) THEN topN ELSE Len(entries)

\* the totals are taken over the entries displayed
CallerSummary_OfShown(entries, topN) ==
  LET shown == SliceTo(entries, topN)
  IN [kind |-> "summary", unique |-> Len(entries),
      totalSamples |-> SumSeq(shown, "count"),
      totalTime |-> SumSeq(shown, "totalTime")]

\* the Summary block: reduce over all of aggregated
CallerSummary(entries, topN) ==
  [kind |-> "summary", unique |-> Len(entries),
   totalSamples |-> SumSeq(entries, "count"),
   totalTime |-> SumSeq(entries, "totalTime")]

\* the lines of analyzeProfile from "Total call stack samples" to the Summary
CallerReport(stacks, entries, topN) ==
  LET maxCount == entries[1].count
  IN <<[kind |-> "stackSamples", n |-> Len(stacks)],
       [kind |-> "topStacks", n |-> Shown(topN, entries)]>>
     \o [k \in 1..Shown(topN, entries) |-> FormatStackEntry(entries[k], k - 1, maxCount)]
     \o <<CallerSummary(entries, topN)>>

\* the lines printed for the result of analyzeChildren
ChildrenReport(children) ==
  IF Len(children) > 0
  THEN LET totalChildSamples == SumSeq(children, "sampleCount")
       IN <<[kind |-> "topChildren", n |-> Len(children)]>>
          \o [k \in 1..Len(children) |->
                [kind |-> "child", rank |-> k, index |-> children[k].index,
                 function |-> children[k].function,
                 sampleCount |-> children[k].sampleCount,
                 percentage |-> Percent2(children[k].sampleCount, totalChildSamples)]]
          \o <<[kind |-> "childSamples", n |-> totalChildSamples]>>
  ELSE <<[kind |-> "noChildren"]>>

\* the banner of analyzeProfile
ProfileHeader(prof, targetNodes) ==
  <<[kind |-> "totalSamples", n |-> Len(ProfileSamples(prof))],
    [kind |-> "targetNodesFound", n |-> Len(targetNodes)]>>
  \o (IF Len(targetNodes) = 0 THEN <<[kind |-> "noMatchingNodes"]>> ELSE <<>>)

\* the banner of one target
TargetHeader(targetNode) ==
  <<[kind |-> "target", index |-> targetNode.index,
     function |-> IF targetNode.node.functionName # <<>>
                  THEN targetNode.node.functionName ELSE StrAnonymous,
     hitCount |-> targetNode.hitCount]>>

\* the report of main without a function filter
TopFunctionsReport(prof, topN) ==
  LET topFunctions == TopFunctions(prof, topN)
  IN <<[kind |-> "noFunction"]>>
     \o [k \in 1..Len(topFunctions) |->
           [kind |-> "topFunction", rank |-> k, index |-> topFunctions[k].index,
            hitCount |-> topFunctions[k].hitCount]]

(***************************************************************************)
(* Inputs.                                                                 *)
(***************************************************************************)
NodeIds == 0..(NumNodes - 1)
\* ids that may occur in children lists and samples: NumNodes is outside the table
AnyIds == 0..NumNodes

StrF == <<"f">>
StrFile == <<"s", "r", "c", "/", "a", ".", "j", "s">>

\* children lists of the generated graphs: no child or one child
ChildLists == {<<>>} \cup {<<c>> : c \in AnyIds}

Graphs == [NodeIds -> ChildLists]

StrG == <<"g">>

\* generated nodes: even indices are frames of f (native, no line), odd indices
\* frames of g at src/a.js:7, so that distinct nodes can share their labels
MakeNode(i, children) ==
  IF i % 2 = 0
  THEN [functionName |-> StrF, url |-> <<>>, lineNumber |-> 0, columnNumber |-> 0,
        hitCount |-> 1, children |-> children]
  ELSE [functionName |-> StrG, url |-> StrFile, lineNumber |-> 7, columnNumber |-> 0,
        hitCount |-> 1, children |-> children]

MakeNodes(g) == [k \in 1..NumNodes |-> MakeNode(k - 1, g[k - 1])]

SeqsUpTo(S, n) == UNION {[1..k -> S] : k \in 0..n}

\* timeDeltas of the generated profiles: 100, 200, ... microseconds
MakeTimeDeltas(n) == [k \in 1..n |-> 100 * k]

GeneratedProfile(g, s) ==
  [nodes |-> MakeNodes(g), samples |-> s, timeDeltas |-> MakeTimeDeltas(Len(s))]

\* root(index 0, no hits) -> A(index 1, hitCount 2) -> B(index 2, hitCount 3)
ScenarioNode(name, hits, children) ==
  [functionName |-> name, url |-> <<>>, lineNumber |-> 0, columnNumber |-> 0,
   hitCount |-> hits, children |-> children]

ScenarioProfile ==
  [nodes |-> <<ScenarioNode(<<"r", "o", "o", "t">>, 0, <<1>>),
               ScenarioNode(<<"A">>, 2, <<2>>),
               ScenarioNode(<<"B">>, 3, <<>>)>>,
   samples |-> <<1, 2, 2>>,
   timeDeltas |-> <<100, 200, 300>>]

\* a single chain 0 -> 1 -> ... -> len-1 of one recursive function, sampled at its end
ChainProfile(len) ==
  [nodes |-> [k \in 1..len |->
                [functionName |-> StrF, url |-> <<>>, lineNumber |-> 0, columnNumber |-> 0,
                 hitCount |-> 1, children |-> IF k < len THEN <<k>> ELSE <<>>]],
   samples |-> <<len - 1>>,
   timeDeltas |-> <<100>>]

ChainLengths == {DefaultMaxDepth, DefaultMaxDepth + 2}
ChainTargets == {0, 2}

IdleWalk == [nodeIndex |-> 0, maxDepth |-> 0, w |-> WalkStart(0)]

\* the descendant search and the run of main when they are not under way
IdleDescend == [kind |-> "none", frames |-> <<>>, set |-> {}, expanded |-> <<>>]
IdleRun == [args |-> <<>>, options |-> DefaultOptions, targets |-> <<>>, k |-> 0, output |-> <<>>]

(***************************************************************************)
(* Caller analysis of one target, as analyzeProfile runs it.               *)
(***************************************************************************)
Init ==
  /\ \/ /\ \E g \in Graphs, s \in SeqsUpTo(AnyIds, MaxSamples) : profile = GeneratedProfile(g, s)
        /\ target \in NodeIds
     \/ profile = ScenarioProfile /\ target \in 0..2
     \/ \E len \in ChainLengths : profile = ChainProfile(len) /\ target \in ChainTargets
  /\ pc = "start"
  /\ callStacks = <<>>
  /\ aggregated = <<>>
  /\ walk = IdleWalk
  /\ descend = IdleDescend
  /\ run = IdleRun
  /\ OtherScriptsIdle

\* const callStacks = buildCallStack(profile, index)
DoBuildCallStack ==
  /\ pc = "start"
  /\ callStacks' = BuildCallStack(profile, target)
  /\ pc' = "stacks"
  /\ UNCHANGED <<profile, target, aggregated, walk, descend, run, deletion, creation, packageJson, verification>>

\* if (!callStacks || callStacks.length === 0) continue
DoNoCallStacks ==
  /\ pc = "stacks"
  /\ callStacks = <<>>
  /\ pc' = "done"
  /\ UNCHANGED <<profile, target, callStacks, aggregated, walk, descend, run, deletion, creation, packageJson, verification>>

\* const aggregated = aggregateCallStacks(callStacks)
DoAggregate ==
  /\ pc = "stacks"
  /\ callStacks # <<>>
  /\ aggregated' = AggregateCallStacks(callStacks)
  /\ pc' = "done"
  /\ UNCHANGED <<profile, target, callStacks, walk, descend, run, deletion, creation, packageJson, verification>>

Next == DoBuildCallStack \/ DoNoCallStacks \/ DoAggregate

Spec == Init /\ [][Next]_vars

(***************************************************************************)
(* One ancestor walk, iteration by iteration.                              *)
(***************************************************************************)
WalkDepths == (0..MaxWalkDepth) \cup {DefaultMaxDepth}

InitWalk ==
  /\ \E g \in Graphs : profile = GeneratedProfile(g, <<>>)
  /\ target = 0
  /\ pc = "walk"
  /\ callStacks = <<>>
  /\ aggregated = <<>>
  /\ \E nodeIndex \in AnyIds, maxDepth \in WalkDepths :
       walk = [nodeIndex |-> nodeIndex, maxDepth |-> maxDepth, w |-> WalkStart(nodeIndex)]
  /\ descend = IdleDescend
  /\ run = IdleRun
  /\ OtherScriptsIdle

\* the loop condition holds: one pass through the body
WalkIterate ==
  /\ pc = "walk"
  /\ ~walk.w.broke
  /\ WalkCond(walk.w, walk.maxDepth)
  /\ walk' = [walk EXCEPT !.w = WalkBody(profile.nodes, BuildNodeTree(profile.nodes).parentMap, @)]
  /\ UNCHANGED <<profile, target, pc, callStacks, aggregated, descend, run, deletion, creation, packageJson, verification>>

\* break, or the loop condition fails: return stack
WalkReturn ==
  /\ pc = "walk"
  /\ walk.w.broke \/ ~WalkCond(walk.w, walk.maxDepth)
  /\ pc' = "returned"
  /\ UNCHANGED <<profile, target, callStacks, aggregated, walk, descend, run, deletion, creation, packageJson, verification>>

NextWalk == WalkIterate \/ WalkReturn

SpecWalk == InitWalk /\ [][NextWalk]_vars

\* the walk is a synchronous loop: it is never suspended
SpecWalkFair == SpecWalk /\ WF_vars(NextWalk)

(***************************************************************************)
(* aggregateCallStacks on call stacks given directly.                      *)
(***************************************************************************)
AggFrame(index, function, url, line) ==
  [index |-> index, function |-> function, url |-> url, line |-> line, column |-> 0]

FrameFA == AggFrame(1, StrF, StrFile, 7)
FrameFgA == AggFrame(2, <<"f", "@", "g">>, <<"a">>, 7)
FrameFGa == AggFrame(3, StrF, <<"g", "@", "a">>, 7)
FrameAnon == AggFrame(4, StrAnonymous, <<>>, 0)
FrameTarget == AggFrame(0, <<"t">>, StrFile, 1)

CallerSeqs ==
  {<<>>, <<FrameFA>>, <<FrameFgA>>, <<FrameFGa>>, <<FrameAnon>>, <<FrameAnon, FrameFA>>}

TimeVals == {100, 200}

\* call stacks as buildCallStack returns them: callers, then the last frame
StackInput(c, t) ==
  [k \in 1..Len(c) |-> [stack |-> Append(c[k], FrameTarget), timeDelta |-> t[k],
                        sampleIndex |-> k - 1]]

EmptyProfile == [nodes |-> <<>>, samples |-> <<>>, timeDeltas |-> <<>>]

InitAgg ==
  /\ profile = EmptyProfile
  /\ target = 0
  /\ pc = "stacks"
  /\ \E n \in 0..MaxStacks : \E c \in [1..n -> CallerSeqs], t \in [1..n -> TimeVals] :
       callStacks = StackInput(c, t)
  /\ aggregated = <<>>
  /\ walk = IdleWalk
  /\ descend = IdleDescend
  /\ run = IdleRun
  /\ OtherScriptsIdle

NextAgg == DoNoCallStacks \/ DoAggregate

SpecAgg == InitAgg /\ [][NextAgg]_vars

(***************************************************************************)
(* Properties of the caller analysis.                                      *)
(***************************************************************************)
RECURSIVE SumOver(_, _)
\* sum of field(s[k]) written as a sum over a sequence of numbers
SumOver(nums, k) == IF k > Len(nums) THEN 0 ELSE nums[k] + SumOver(nums, k + 1)

Counts(entries) == [k \in 1..Len(entries) |-> entries[k].count]
Times(entries) == [k \in 1..Len(entries) |-> entries[k].totalTime]

\* the final loop state of the ancestor walk of sample position i (0-based)
SampleWalk(prof, i) ==
  WalkLoop(prof.nodes, BuildNodeTree(prof.nodes).parentMap,
           WalkStart(prof.samples[i + 1]), DefaultMaxDepth)

\* the walk of sample position i contains a frame of node t
WalkContains(prof, i, t) == StackHas(SampleWalk(prof, i).stack, t)

QualifyingSamples(prof, t) ==
  {i \in 0..(Len(prof.samples) - 1) : WalkContains(prof, i, t)}

\* nodes reachable from t over one or more child edges, from the children lists
ChildEdge(prof, a, b) ==
  /\ a \in 0..(Len(prof.nodes) - 1)
  /\ \E j \in 1..Len(prof.nodes[a + 1].children) : prof.nodes[a + 1].children[j] = b

RECURSIVE ReachFrom(_, _)
ReachFrom(prof, seen) ==
  LET more == {b \in 0..Len(prof.nodes) : \E a \in seen : ChildEdge(prof, a, b)}
  IN IF more \subseteq seen THEN seen ELSE ReachFrom(prof, seen \cup more)

\* C1: the counts of the aggregated entries of a target add up to the number of
\* sample positions whose ancestor walk contains the target; every such sample
\* is counted once and no other sample is counted.
C1_CountsSumToQualifying ==
  pc = "done" =>
    /\ SumOver(Counts(aggregated), 1) = Cardinality(QualifyingSamples(profile, target))
    /\ {callStacks[k].sampleIndex : k \in 1..Len(callStacks)} = QualifyingSamples(profile, target)
    /\ Len(callStacks) = Cardinality(QualifyingSamples(profile, target))

\* a descendant of the target is sampled whose walk misses the target (its first
\* parent is another node), and another sample is counted
C1_Witness ==
  /\ pc = "done"
  /\ Len(aggregated) >= 1
  /\ \E i \in 0..(Len(profile.samples) - 1) :
       /\ profile.samples[i + 1] \in ReachFrom(profile, {target})
       /\ profile.samples[i + 1] < Len(profile.nodes)
       /\ ~WalkContains(profile, i, target)

ScenarioDone == profile = ScenarioProfile /\ target = 2 /\ pc = "done"

FunctionNames(stack) == [k \in 1..Len(stack) |-> stack[k].function]

\* C2 as stated: target B of the scenario yields one entry root -> A with count 3
\* and totalTime 600.
C2_ScenarioAsStated ==
  ScenarioDone =>
    /\ Len(aggregated) = 1
    /\ FunctionNames(aggregated[1].stack) = <<<<"r", "o", "o", "t">>, <<"A">>>>
    /\ aggregated[1].count = 3
    /\ aggregated[1].totalTime = 600

\* C2 amended: target B of the scenario yields one entry with count 2 and
\* totalTime 500 (the two samples on B; the sample on A has no B in its walk),
\* and the frame list stored for it is empty.
C2_ScenarioAmended ==
  ScenarioDone =>
    /\ Len(aggregated) = 1
    /\ aggregated[1].count = 2
    /\ aggregated[1].totalTime = 500
    /\ aggregated[1].samples = <<200, 300>>
    /\ aggregated[1].stack = <<>>
    /\ QualifyingSamples(profile, target) = {1, 2}

C2_Witness == ScenarioDone /\ Len(callStacks) = 2

\* the labels by which the report shows a frame
FrameLabel(f) == <<f.function, UrlShort(f.url), f.line>>
StackLabels(stack) == [k \in 1..Len(stack) |-> FrameLabel(stack[k])]

\* the walk of sample position i strictly above the target, outermost first
AboveTarget(prof, i, t) ==
  LET full == SampleWalk(prof, i).stack
  IN Reverse(SubSeq(full, FindIndex(full, t) + 2, Len(full)))

\* the aggregated entry a call stack is counted in
EntryOf(entries, cs) ==
  CHOOSE e \in {entries[k] : k \in 1..Len(entries)} :
    StackKey(e.stack) = StackKey(Callers(cs.stack))

\* C3: the frames stored in the entry of a qualifying sample are the part of its
\* walk strictly above the target, outermost ancestor first.
C3_EntryStackIsAboveTarget ==
  pc = "done" =>
    \A k \in 1..Len(callStacks) :
      StackLabels(EntryOf(aggregated, callStacks[k]).stack)
        = StackLabels(AboveTarget(profile, callStacks[k].sampleIndex, target))

\* C10: an entry that counts a sample whose walk was cut at the depth ceiling is
\* marked as truncated: it carries a mark, or its signature differs from that of
\* every entry produced by a walk that ends at a root.
WalkTruncated(w) == ~w.broke /\ w.depth >= DefaultMaxDepth
WalkEndsAtRoot(w) == w.broke

HasSampleWith(prof, stacks, e, Test(_)) ==
  \E k \in 1..Len(stacks) :
    /\ StackKey(Callers(stacks[k].stack)) = StackKey(e.stack)
    /\ Test(SampleWalk(prof, stacks[k].sampleIndex))

RootEndingKeys ==
  {StackKey(AggregateCallStacks(BuildCallStack(ChainProfile(len), t))[1].stack) :
     len \in {n \in ChainLengths : n <= DefaultMaxDepth}, t \in {0}}

InputKey(cs) == StackKey(Callers(cs.stack))
InputLabels(cs) == StackLabels(Callers(cs.stack))

\* the positions of the input call stacks that satisfy Same, in input order
RECURSIVE TimesWhere(_, _, _)
TimesWhere(stacks, Same(_), k) ==
  IF k > Len(stacks) THEN <<>>
  ELSE (IF Same(stacks[k]) THEN <<stacks[k].timeDelta>> ELSE <<>>)
         \o TimesWhere(stacks, Same, k + 1)

\* entries is the partition of stacks by the classifier Class
PartitionBy(entries, stacks, Class(_)) ==
  /\ \A k \in 1..Len(stacks) : \E n \in 1..Len(entries) :
       Class([stack |-> Append(entries[n].stack, FrameTarget)]) = Class(stacks[k])
  /\ \A n, m \in 1..Len(entries) :
       n # m => Class([stack |-> Append(entries[n].stack, FrameTarget)])
                  # Class([stack |-> Append(entries[m].stack, FrameTarget)])
  /\ \A n \in 1..Len(entries) :
       LET e == entries[n]
           Mine(cs) == Class(cs) = Class([stack |-> Append(e.stack, FrameTarget)])
           mine == TimesWhere(stacks, Mine, 1)
       IN /\ e.count = Len(mine)
          /\ e.totalTime = SumOver(mine, 1)
          /\ e.samples = mine
          /\ e.count >= 1

\* C4 as stated: the entries partition the input by the label sequence of the
\* callers (function name, short file name, line), with count, totalTime and
\* samples taken over the stacks of the class.
C4_PartitionByLabels ==
  pc = "done" => PartitionBy(aggregated, callStacks, InputLabels)

\* C4 amended: the entries partition the input by the rendered signature string
\* of the callers; equal label sequences render equally, so they share an entry,
\* and for every entry count, totalTime and samples are taken over its class.
C4_PartitionBySignature ==
  pc = "done" =>
    /\ PartitionBy(aggregated, callStacks, InputKey)
    /\ \A a, b \in 1..Len(callStacks) :
         InputLabels(callStacks[a]) = InputLabels(callStacks[b])
           => InputKey(callStacks[a]) = InputKey(callStacks[b])

\* two stacks with different caller labels and the same signature share an entry,
\* next to an entry of another signature
C4_Witness ==
  /\ pc = "done"
  /\ Len(aggregated) = 2
  /\ \E a, b \in 1..Len(callStacks) :
       /\ InputLabels(callStacks[a]) # InputLabels(callStacks[b])
       /\ InputKey(callStacks[a]) = InputKey(callStacks[b])

\* C5: the entries are returned by count descending, equal counts by totalTime
\* descending.
C5_Ranked ==
  pc = "done" =>
    \A k \in 1..(Len(aggregated) - 1) :
      \/ aggregated[k].count > aggregated[k + 1].count
      \/ /\ aggregated[k].count = aggregated[k + 1].count
         /\ aggregated[k].totalTime >= aggregated[k + 1].totalTime

\* an entry inserted later moves ahead on totalTime within a tie on count
C5_Witness ==
  /\ pc = "done"
  /\ Len(aggregated) = 2
  /\ aggregated[1].count = aggregated[2].count
  /\ aggregated[1].totalTime > aggregated[2].totalTime
  /\ InputKey(callStacks[1]) = StackKey(aggregated[2].stack)

(***************************************************************************)
(* Properties of getCallStackUp.                                           *)
(***************************************************************************)
\* the nodes whose children list contains c
ParentsIn(nodes, c) ==
  {i \in 0..(Len(nodes) - 1) : \E j \in 1..Len(nodes[i + 1].children) : nodes[i + 1].children[j] = c}

\* the lowest-index node whose children list contains c: {it}, or {} if none
LowestParent(nodes, c) ==
  {i \in ParentsIn(nodes, c) : \A j \in ParentsIn(nodes, c) : i <= j}

\* the k-th node of the first-parent chain from start: {it}, or {} past the end
RECURSIVE ChainNode(_, _, _)
ChainNode(nodes, start, k) ==
  IF k = 0 THEN {start}
  ELSE UNION {LowestParent(nodes, prev) : prev \in ChainNode(nodes, start, k - 1)}

\* the number of nodes a walk must visit: the first k at which the ceiling is
\* reached, the chain has ended, or the next node was already visited
WalkLength(nodes, start, maxDepth) ==
  CHOOSE k \in 0..maxDepth :
    /\ \/ k = maxDepth
       \/ ChainNode(nodes, start, k) = {}
       \/ \E j \in 0..(k - 1) : ChainNode(nodes, start, j) = ChainNode(nodes, start, k)
    /\ \A m \in 0..(k - 1) :
         /\ ChainNode(nodes, start, m) # {}
         /\ \A j \in 0..(m - 1) : ChainNode(nodes, start, j) # ChainNode(nodes, start, m)

\* C7: the frames of a walk never hold a node index twice.
C7_NoDuplicateFrames ==
  \A a, b \in 1..Len(walk.w.stack) :
    a # b => walk.w.stack[a].index # walk.w.stack[b].index

\* a walk that ran into a node it had already visited, below the depth ceiling
C7_Witness ==
  /\ pc = "returned"
  /\ ~walk.w.broke
  /\ walk.w.depth < walk.maxDepth
  /\ walk.w.current \in walk.w.visited
  /\ Len(walk.w.stack) >= 2

\* C8: every walk returns; it returns at most maxDepth frames, and it has
\* visited exactly the nodes of the first-parent chain up to the first point
\* where the chain ends, maxDepth nodes are visited or a node repeats.
C8_WalkTerminates ==
  /\ <>(pc = "returned")
  /\ [](/\ Len(walk.w.stack) <= walk.maxDepth
        /\ Cardinality(walk.w.visited) <= walk.maxDepth
        /\ pc = "returned" =>
             LET n == WalkLength(profile.nodes, walk.nodeIndex, walk.maxDepth)
             IN /\ Cardinality(walk.w.visited) = n
                /\ walk.w.visited = UNION {ChainNode(profile.nodes, walk.nodeIndex, j) : j \in 0..(n - 1)})

\* a walk on a cycle that the depth ceiling stopped before the cycle closed
C8_Witness ==
  /\ pc = "returned"
  /\ walk.maxDepth >= 2
  /\ Cardinality(walk.w.visited) = walk.maxDepth
  /\ ~walk.w.broke
  /\ walk.w.current \notin walk.w.visited
  /\ \E k \in 1..NumNodes : ChainNode(profile.nodes, walk.nodeIndex, k) = {walk.nodeIndex}

\* C9: from a start node inside the table, the first frame is the start node
\* and every further frame is the lowest-index parent of the frame before it.
C9_FirstParentChain ==
  walk.nodeIndex < Len(profile.nodes) =>
    \A k \in 1..Len(walk.w.stack) :
      {walk.w.stack[k].index} =
        IF k = 1 THEN {walk.nodeIndex}
        ELSE LowestParent(profile.nodes, walk.w.stack[k - 1].index)

\* a returned walk that passed a node with two different parents
C9_Witness ==
  /\ pc = "returned"
  /\ walk.nodeIndex < Len(profile.nodes)
  /\ \E k \in 1..(Len(walk.w.stack) - 1) :
       /\ Cardinality(ParentsIn(profile.nodes, walk.w.stack[k].index)) >= 2
       /\ {walk.w.stack[k + 1].index} = LowestParent(profile.nodes, walk.w.stack[k].index)

(***************************************************************************)
(* findDescendants / collectDescendants, call by call.                     *)
(* descend.frames is the stack of active calls: node is the argument of    *)
(* the call and j the position of its for-of loop (1-based);               *)
(* descend.expanded counts the calls made for each id.                     *)
(***************************************************************************)
DescendKinds == {"find", "collect"}

\* new Set([targetNodeIndex]) in buildCallStack, new Set() in analyzeChildren
DescendSeed(kind, t) == IF kind = "find" THEN {t} ELSE {}

\* the has() test dropped: every child is entered
DescendFresh_NoTest(set, child) == TRUE

\* if (!targetDescendants.has(child)) / if (!descendants.has(child))
DescendFresh(set, child) == child \notin set

\* calls that can be active at once: the first call and one per id of the set
MaxFrames == NumNodes + 2

DescendTop == descend.frames[Len(descend.frames)]
DescendChildren == ChildrenOf(BuildNodeTree(profile.nodes).childMap, DescendTop.node)

InitDescend ==
  /\ \E g \in Graphs : profile = GeneratedProfile(g, <<>>)
  /\ target \in NodeIds
  /\ pc = "descend"
  /\ callStacks = <<>>
  /\ aggregated = <<>>
  /\ walk = IdleWalk
  /\ \E kind \in DescendKinds :
       descend = [kind |-> kind,
                  frames |-> <<[node |-> target, j |-> 1]>>,
                  set |-> DescendSeed(kind, target),
                  expanded |-> [n \in AnyIds |-> IF n = target THEN 1 ELSE 0]]
  /\ run = IdleRun
  /\ OtherScriptsIdle

\* the child is new: add it and call the search for it; the caller's loop goes on
\* with the next child when that call returns
DescendEnter ==
  /\ pc = "descend"
  /\ DescendTop.j <= Len(DescendChildren)
  /\ DescendFresh(descend.set, DescendChildren[DescendTop.j])
  /\ Len(descend.frames) < MaxFrames
  /\ LET child == DescendChildren[DescendTop.j]
     IN descend' = [descend EXCEPT
                      !.set = @ \cup {child},
                      !.frames = Append([@ EXCEPT ![Len(@)].j = @ + 1],
                                        [node |-> child, j |-> 1]),
                      !.expanded[child] = @ + 1]
  /\ UNCHANGED <<profile, target, pc, callStacks, aggregated, walk, run, deletion, creation, packageJson, verification>>

\* the child is in the set already: next child
DescendSkip ==
  /\ pc = "descend"
  /\ DescendTop.j <= Len(DescendChildren)
  /\ ~DescendFresh(descend.set, DescendChildren[DescendTop.j])
  /\ descend' = [descend EXCEPT !.frames[Len(descend.frames)].j = @ + 1]
  /\ UNCHANGED <<profile, target, pc, callStacks, aggregated, walk, run, deletion, creation, packageJson, verification>>

\* the for-of loop is over: the call returns; the search is over with the first call
DescendReturn ==
  /\ pc = "descend"
  /\ DescendTop.j > Len(DescendChildren)
  /\ descend' = [descend EXCEPT !.frames = SubSeq(@, 1, Len(@) - 1)]
  /\ pc' = IF Len(descend.frames) = 1 THEN "descended" ELSE "descend"
  /\ UNCHANGED <<profile, target, callStacks, aggregated, walk, run, deletion, creation, packageJson, verification>>

NextDescend == DescendEnter \/ DescendSkip \/ DescendReturn

SpecDescend == InitDescend /\ [][NextDescend]_vars

\* the search is synchronous recursion: it is never suspended
SpecDescendFair == SpecDescend /\ WF_vars(NextDescend)

(***************************************************************************)
(* A run of main.  pc is the position in main / analyzeProfile; run.k is   *)
(* the position of the for-of loop over the targets (1-based).             *)
(***************************************************************************)
StrP == <<"p">>
StrFG == <<"f", "g">>
StrX == <<"x">>
StrAJs == <<"a", ".", "j", "s">>

\* profiles of main: node i calls node i + 1 or nothing; the last node may name
\* a child outside the table
MainGraphs == {g \in Graphs : \A i \in NodeIds : g[i] \in {<<>>, <<i + 1>>}}

HitPatterns ==
  {[i \in NodeIds |-> i % 3], [i \in NodeIds |-> 1], [i \in NodeIds |-> 2 * ((i + 1) % 2)]}

\* nodes named f, fg, g, f, ...; odd indices lie in src/a.js
MainNode(i, children, hits) ==
  [functionName |-> IF i % 3 = 0 THEN StrF ELSE IF i % 3 = 1 THEN StrFG ELSE StrG,
   url |-> IF i % 2 = 0 THEN <<>> ELSE StrFile,
   lineNumber |-> IF i % 2 = 0 THEN 0 ELSE 7,
   columnNumber |-> 0,
   hitCount |-> hits,
   children |-> children]

MainNodes(g, h) == [k \in 1..NumNodes |-> MainNode(k - 1, g[k - 1], h[k - 1])]

\* a profile with its samples, and the same profile without the two arrays
MainProfile(g, h, s) ==
  [nodes |-> MainNodes(g, h), samples |-> s, timeDeltas |-> MakeTimeDeltas(Len(s))]
BareProfile(g, h) == [nodes |-> MainNodes(g, h)]

\* one node more than the report without a function filter shows, all with hits
WideProfile ==
  [nodes |-> [k \in 1..(TopFunctionsLimit + 1) |-> MainNode(k - 1, <<>>, k)],
   samples |-> <<>>, timeDeltas |-> <<>>]

ArgLists ==
  {<<StrP>>,
   <<StrP, StrOptTop, <<"1">>>>,
   <<StrP, StrOptFile, StrAJs, StrOptTop, <<"1">>>>,
   <<StrP, StrOptFunction, StrF>>,
   <<StrP, StrOptFunction, StrF, StrOptTop, <<"1">>>>,
   <<StrP, StrOptFunction, StrG>>,
   <<StrP, StrOptFunction, StrG, StrOptFile, StrAJs>>,
   <<StrP, StrOptFunction, StrX>>,
   <<StrP, StrOptFunction>>,
   <<StrP, StrOptHelp>>,
   <<>>}

ScenarioArgLists ==
  {<<StrP, StrOptFunction, <<"A">>>>,
   <<StrP, StrOptFunction, <<"B">>, StrOptTop, <<"1">>>>,
   <<StrP, StrOptFunction, <<"o">>>>}

InitMain ==
  /\ \/ /\ \E g \in MainGraphs, h \in HitPatterns :
             \/ \E s \in SeqsUpTo(AnyIds, MaxSamples) : profile = MainProfile(g, h, s)
             \/ profile = BareProfile(g, h)
        /\ \E args \in ArgLists : run = [IdleRun EXCEPT !.args = args]
     \/ /\ profile = ScenarioProfile
        /\ \E args \in ScenarioArgLists : run = [IdleRun EXCEPT !.args = args]
     \/ /\ profile = WideProfile
        /\ \E args \in {<<StrP>>, <<StrP, StrOptTop, <<"1">>>>} :
             run = [IdleRun EXCEPT !.args = args]
  /\ target = 0
  /\ pc = "main"
  /\ callStacks = <<>>
  /\ aggregated = <<>>
  /\ walk = IdleWalk
  /\ descend = IdleDescend
  /\ OtherScriptsIdle

Emit(lines) == [run EXCEPT !.output = @ \o lines]

\* parseArgs and loadProfile: --help and a missing profile file end the process
MainParse ==
  /\ pc = "main"
  /\ LET parsed == ParseArgs(run.args)
     IN IF parsed.exit = "help"
        THEN run' = Emit(<<[kind |-> "usage"]>>) /\ pc' = "exit"
        ELSE IF parsed.exit = "usage"
        THEN run' = Emit(<<[kind |-> "profileRequired"]>>) /\ pc' = "exitError"
        ELSE /\ run' = [run EXCEPT !.options = parsed.options,
                                   !.output = @ \o <<[kind |-> "loading"]>>]
             /\ pc' = "loaded"
  /\ UNCHANGED <<profile, target, callStacks, aggregated, walk, descend, deletion, creation, packageJson, verification>>

\* the report without analysis is taken only when no filter at all is given
TakesFallback_NoFilter(options) == ~IsSet(options.function) /\ ~IsSet(options.file)

\* if (!options.function)
TakesFallback(options) == ~IsSet(options.function)

\* if (!options.function): the top functions by hit count, then return
MainTopFunctions ==
  /\ pc = "loaded"
  /\ TakesFallback(run.options)
  /\ run' = Emit(TopFunctionsReport(profile, run.options.top))
  /\ pc' = "exit"
  /\ UNCHANGED <<profile, target, callStacks, aggregated, walk, descend, deletion, creation, packageJson, verification>>

\* const targetNodes = findTargetNodes(profile, options.function, options.file)
MainFindTargets ==
  /\ pc = "loaded"
  /\ ~TakesFallback(run.options)
  /\ run' = [run EXCEPT !.targets = FindTargetNodes(profile, run.options.function,
                                                    run.options.file)]
  /\ pc' = "found"
  /\ UNCHANGED <<profile, target, callStacks, aggregated, walk, descend, deletion, creation, packageJson, verification>>

\* if (targetNodes.length === 0): "No nodes found matching", then return
MainNoNodes ==
  /\ pc = "found"
  /\ Len(run.targets) = 0
  /\ run' = Emit(<<[kind |-> "noNodesFound"]>>)
  /\ pc' = "exit"
  /\ UNCHANGED <<profile, target, callStacks, aggregated, walk, descend, deletion, creation, packageJson, verification>>

\* analyzeProfile(profile, targetNodes, options.top): the banner
AnalyzeProfileBegin ==
  /\ pc = "found"
  /\ Len(run.targets) # 0
  /\ run' = [run EXCEPT !.k = 1, !.output = @ \o ProfileHeader(profile, run.targets)]
  /\ pc' = IF Len(run.targets) = 0 THEN "exit" ELSE "target"
  /\ UNCHANGED <<profile, target, callStacks, aggregated, walk, descend, deletion, creation, packageJson, verification>>

\* a target without call stacks: "No call stacks found", continue
AnalyzeTargetNoStacks ==
  /\ pc = "target"
  /\ run.k <= Len(run.targets)
  /\ LET index == run.targets[run.k].index
         stacks == BuildCallStack(profile, index)
     IN /\ Len(stacks) = 0
        /\ target' = index
        /\ callStacks' = stacks
        /\ run' = [run EXCEPT !.k = @ + 1,
                              !.output = @ \o TargetHeader(run.targets[run.k])
                                           \o <<[kind |-> "noCallStacks"]>>]
  /\ UNCHANGED <<profile, pc, aggregated, walk, descend, deletion, creation, packageJson, verification>>

\* a target with call stacks: aggregate, show the first entries and the summary
AnalyzeTargetCallers ==
  /\ pc = "target"
  /\ run.k <= Len(run.targets)
  /\ LET index == run.targets[run.k].index
         stacks == BuildCallStack(profile, index)
         entries == AggregateCallStacks(stacks)
     IN /\ Len(stacks) # 0
        /\ target' = index
        /\ callStacks' = stacks
        /\ aggregated' = entries
        /\ run' = Emit(TargetHeader(run.targets[run.k])
                         \o CallerReport(stacks, entries, run.options.top))
  /\ pc' = "children"
  /\ UNCHANGED <<profile, walk, descend, deletion, creation, packageJson, verification>>

\* analyzeChildren returns: its rows are printed and the loop goes on
AnalyzeTargetChildren ==
  /\ pc = "children"
  /\ LET children == AnalyzeChildren(profile, target, run.options.top)
     IN /\ ~children.threw
        /\ run' = [run EXCEPT !.k = @ + 1, !.output = @ \o ChildrenReport(children.rows)]
  /\ pc' = "target"
  /\ UNCHANGED <<profile, target, callStacks, aggregated, walk, descend, deletion, creation, packageJson, verification>>

\* analyzeChildren throws: nothing catches the TypeError and the process dies
AnalyzeChildrenThrows ==
  /\ pc = "children"
  /\ AnalyzeChildren(profile, target, run.options.top).threw
  /\ pc' = "threw"
  /\ UNCHANGED <<profile, target, callStacks, aggregated, walk, descend, run, deletion, creation, packageJson, verification>>

\* the loop over the targets is over: analyzeProfile and main return
AnalyzeProfileEnd ==
  /\ pc = "target"
  /\ run.k > Len(run.targets)
  /\ pc' = "exit"
  /\ UNCHANGED <<profile, target, callStacks, aggregated, walk, descend, run, deletion, creation, packageJson, verification>>

NextMain ==
  \/ MainParse \/ MainTopFunctions \/ MainFindTargets \/ MainNoNodes
  \/ AnalyzeProfileBegin \/ AnalyzeTargetNoStacks \/ AnalyzeTargetCallers
  \/ AnalyzeTargetChildren \/ AnalyzeChildrenThrows \/ AnalyzeProfileEnd

SpecMain == InitMain /\ [][NextMain]_vars

(***************************************************************************)
(* C11: buildNodeTree.                                                     *)
(***************************************************************************)
SeqHas(seq, x) == \E q \in 1..Len(seq) : seq[q] = x

NodeIndices(nodes) == 0..(Len(nodes) - 1)

\* every id that occurs in some children list
ChildIdsOf(nodes) == UNION {{nodes[p + 1].children[q] : q \in 1..Len(nodes[p + 1].children)} :
                             p \in NodeIndices(nodes)}

\* C11: the adjacency built by buildNodeTree is symmetric: for every node index p
\* and id c, c is in nodes[p].children iff p is in parentMap[c] iff c is in
\* childMap[p]; the keys and members of both maps all stem from a children list.
C11_SymmetricAdjacency ==
  LET nodes == profile.nodes
      maps == BuildNodeTree(nodes)
  IN /\ \A p \in NodeIndices(nodes) : \A c \in AnyIds :
          /\ SeqHas(nodes[p + 1].children, c)
               <=> (MapHas(maps.parentMap, c) /\ SeqHas(maps.parentMap[c], p))
          /\ SeqHas(nodes[p + 1].children, c)
               <=> (MapHas(maps.childMap, p) /\ SeqHas(maps.childMap[p], c))
     /\ DOMAIN maps.parentMap = ChildIdsOf(nodes)
     /\ DOMAIN maps.childMap = {p \in NodeIndices(nodes) : nodes[p + 1].children # <<>>}
     /\ \A c \in DOMAIN maps.parentMap : \A q \in 1..Len(maps.parentMap[c]) :
          /\ maps.parentMap[c][q] \in NodeIndices(nodes)
          /\ SeqHas(nodes[maps.parentMap[c][q] + 1].children, c)
     /\ \A i \in DOMAIN maps.childMap : maps.childMap[i] = nodes[i + 1].children

\* a walk has used the maps of a graph in which one node is the child of two nodes
C11_Witness ==
  /\ pc = "returned"
  /\ Len(walk.w.stack) >= 2
  /\ \E c \in DOMAIN BuildNodeTree(profile.nodes).parentMap :
       Len(BuildNodeTree(profile.nodes).parentMap[c]) >= 2

(***************************************************************************)
(* C12, C13: descendant collection.                                        *)
(***************************************************************************)
ChildIdSet(prof, t) == {b \in 0..Len(prof.nodes) : ChildEdge(prof, t, b)}

\* ids reachable from t by one or more child edges
ReachByEdges(prof, t) ==
  IF ChildIdSet(prof, t) = {} THEN {} ELSE ReachFrom(prof, ChildIdSet(prof, t))

\* some child of t leads back to t
OnCycle(prof, t) == \E c \in ChildIdSet(prof, t) : t \in ReachFrom(prof, {c})

\* C12: the descendant set of analyzeChildren is the set of ids reachable from
\* the target by one or more child edges: empty for a target without children,
\* and holding the target itself exactly when a cycle leads back to it.
C12_DescendantsAreClosure ==
  (pc = "descended" /\ descend.kind = "collect") =>
    LET childMap == BuildNodeTree(profile.nodes).childMap
    IN /\ descend.set = ReachByEdges(profile, target)
       /\ CollectDescendants(childMap, target) = descend.set
       /\ (profile.nodes[target + 1].children = <<>> => descend.set = {})
       /\ (target \in descend.set <=> OnCycle(profile, target))

\* a finished callee search of a target on a cycle of two or more nodes
C12_Witness ==
  /\ pc = "descended"
  /\ descend.kind = "collect"
  /\ target \in descend.set
  /\ Cardinality(descend.set) >= 2

\* C13 as stated: the search ends and no id is expanded more than once.
C13_AsStated ==
  /\ <>(pc = "descended")
  /\ [](\A n \in AnyIds : descend.expanded[n] <= 1)

\* C13: both searches end on every graph, cyclic or not; every id is expanded
\* at most once, except that the callee search (collectDescendants) expands
\* the target a second time when a cycle leads back to it.
C13_DescendTerminates ==
  /\ <>(pc = "descended")
  /\ [](\A n \in AnyIds :
          descend.expanded[n] <=
            (IF descend.kind = "collect" /\ n = target /\ OnCycle(profile, target)
             THEN 2 ELSE 1))
  /\ [](Len(descend.frames) < MaxFrames)

\* a finished search on a graph with a cycle through the target
C13_Witness ==
  /\ pc = "descended"
  /\ OnCycle(profile, target)
  /\ descend.kind = "collect"
  /\ descend.expanded[target] = 2

(***************************************************************************)
(* C14 - C19: the run of main.                                             *)
(***************************************************************************)
\* the lines of a kind, in the order printed
LinesOf(kind) == SelectSeq(run.output, LAMBDA line : line.kind = kind)

FilterStrings == {<<>>, StrF, StrG, StrFG, StrX, StrAJs}

IsSubstring(sub, str) ==
  \E a \in 1..(Len(str) + 1) : \E b \in (a - 1)..Len(str) : SubSeq(str, a, b) = sub

\* the nodes the two filters select
MatchingIndices(prof, fn, file) ==
  {i \in 0..(Len(prof.nodes) - 1) :
     /\ fn = <<>> \/ prof.nodes[i + 1].functionName = fn
          \/ IsSubstring(fn, prof.nodes[i + 1].functionName)
     /\ file = <<>> \/ IsSubstring(file, prof.nodes[i + 1].url)
     /\ prof.nodes[i + 1].hitCount > 0}

TargetsAsClaimed(prof, fn, file, targets) ==
  /\ {targets[k].index : k \in 1..Len(targets)} = MatchingIndices(prof, fn, file)
  /\ Len(targets) = Cardinality(MatchingIndices(prof, fn, file))
  /\ \A k \in 1..Len(targets) : targets[k].hitCount = prof.nodes[targets[k].index + 1].hitCount
  /\ \A k \in 1..(Len(targets) - 1) : targets[k].hitCount >= targets[k + 1].hitCount

\* C14: findTargetNodes returns exactly the nodes with hitCount > 0 that pass the
\* function filter (absent, equal or substring) and the file filter (absent or
\* substring of the url), each once, most hits first; analyzeProfile analyzes
\* them one by one in that order.
C14_TargetsFoundAndOrdered ==
  /\ pc = "main" =>
       \A fn \in FilterStrings, file \in FilterStrings :
         TargetsAsClaimed(profile, fn, file, FindTargetNodes(profile, fn, file))
  /\ pc \in {"found", "target", "children", "threw", "exit"} /\ IsSet(run.options.function) =>
       /\ TargetsAsClaimed(profile, run.options.function, run.options.file, run.targets)
       /\ LET analysed == LinesOf("target")
          IN /\ Len(analysed) <= Len(run.targets)
             /\ \A k \in 1..Len(analysed) : analysed[k].index = run.targets[k].index
             /\ (pc = "exit" /\ Len(run.targets) > 0) => Len(analysed) = Len(run.targets)

\* a finished run that analysed two targets, the later node first
C14_Witness ==
  /\ pc = "exit"
  /\ Len(run.targets) = 2
  /\ Len(LinesOf("target")) = 2
  /\ run.targets[1].index > run.targets[2].index
  /\ run.targets[1].hitCount > run.targets[2].hitCount

\* C15: when the target filter matches no node, the run of main prints the line
\* "Target Nodes Found: 0", analyses no target and ends normally.
C15_ZeroMatchesReported ==
  (/\ pc \in {"exit", "exitError", "threw"}
   /\ IsSet(run.options.function)
   /\ MatchingIndices(profile, run.options.function, run.options.file) = {}) =>
    /\ pc = "exit"
    /\ \E k \in 1..Len(run.output) :
         run.output[k].kind = "targetNodesFound" /\ run.output[k].n = 0
    /\ LinesOf("target") = <<>>

\* the nodes with hits, and the rows of the report without a function filter
HitIndices(prof) == {i \in 0..(Len(prof.nodes) - 1) : prof.nodes[i + 1].hitCount > 0}
TopRows == LinesOf("topFunction")
TopReported == pc = "exit" /\ LinesOf("noFunction") # <<>>

\* the rows are nodes with hits, each once, with their hit counts, most hits first
TopRowsRanked(prof, rows) ==
  /\ \A k \in 1..Len(rows) :
       /\ rows[k].index \in HitIndices(prof)
       /\ rows[k].hitCount = prof.nodes[rows[k].index + 1].hitCount
  /\ \A k \in 1..Len(rows) : \A q \in 1..Len(rows) : rows[k].index = rows[q].index => k = q
  /\ \A k \in 1..(Len(rows) - 1) : rows[k].hitCount >= rows[k + 1].hitCount

\* the rows are the first limit nodes of the ranking
TopRowsCutAt(prof, rows, limit) ==
  /\ TopRowsRanked(prof, rows)
  /\ Len(rows) = IF Cardinality(HitIndices(prof)) < limit
                 THEN Cardinality(HitIndices(prof)) ELSE limit
  /\ \A i \in HitIndices(prof) : \A k \in 1..Len(rows) :
       (\A q \in 1..Len(rows) : rows[q].index # i) =>
         prof.nodes[i + 1].hitCount <= rows[k].hitCount

\* no caller analysis produced anything, and nothing was thrown
NoCallerResults ==
  /\ pc # "threw"
  /\ LinesOf("entry") = <<>>
  /\ LinesOf("summary") = <<>>
  /\ Len(LinesOf("noCallStacks")) = Len(LinesOf("target"))

\* C16 as stated: without samples buildCallStack returns nothing for any target,
\* and the report without a function filter lists the nodes with hits, most hits
\* first.
C16_AsStated ==
  ProfileSamples(profile) = <<>> =>
    /\ \A t \in 0..(Len(profile.nodes) - 1) : BuildCallStack(profile, t) = <<>>
    /\ NoCallerResults
    /\ TopReported =>
         /\ TopRowsRanked(profile, TopRows)
         /\ {TopRows[k].index : k \in 1..Len(TopRows)} = HitIndices(profile)

\* C16: for a profile whose samples are empty or missing, buildCallStack returns
\* no call stacks for any target and nothing is thrown; the report without a
\* function filter lists the nodes with hits by hit count alone, most hits first,
\* up to its limit of 10 rows.
C16_EmptySamples ==
  ProfileSamples(profile) = <<>> =>
    /\ \A t \in 0..(Len(profile.nodes) - 1) : BuildCallStack(profile, t) = <<>>
    /\ NoCallerResults
    /\ TopReported => TopRowsCutAt(profile, TopRows, TopFunctionsLimit)

\* a report without a function filter for a profile that has no samples array,
\* whose rows are not in table order
C16_Witness ==
  /\ TopReported
  /\ "samples" \notin DOMAIN profile
  /\ Len(TopRows) >= 2
  /\ TopRows[1].index > TopRows[2].index

\* main went past parseArgs and found no function filter
NoFunctionRun == pc = "exit" /\ LinesOf("loading") # <<>> /\ ~IsSet(run.options.function)

\* neither buildCallStack, aggregateCallStacks nor analyzeChildren has run
NoAnalysis ==
  /\ callStacks = <<>>
  /\ aggregated = <<>>
  /\ \A k \in 1..Len(run.output) :
       run.output[k].kind \in {"loading", "noFunction", "topFunction"}

\* C17 as stated: without a target filter main reports the nodes with hits, most
\* hits first, cut at the --top value (default 20), and runs no analysis.
C17_AsStated ==
  NoFunctionRun =>
    /\ TopRowsCutAt(profile, TopRows, run.options.top)
    /\ NoAnalysis

\* C17: when no function filter is supplied (a file filter alone changes
\* nothing), main reports the nodes with hits, most hits first, cut at 10 rows
\* whatever the --top value, and runs no analysis.
C17_TopFunctionsReport ==
  /\ NoFunctionRun =>
       /\ TopReported
       /\ TopRowsCutAt(profile, TopRows, TopFunctionsLimit)
       /\ NoAnalysis
  /\ IsSet(run.options.function) => TopRows = <<>>

\* a finished run with --top 1 and no function filter that printed 10 rows of a
\* profile with 11 nodes that have hits
C17_Witness ==
  /\ NoFunctionRun
  /\ run.options.top = 1
  /\ Cardinality(HitIndices(profile)) > TopFunctionsLimit
  /\ Len(TopRows) = TopFunctionsLimit

\* the lines printed since the banner of the target under analysis
CurrentLines ==
  LET banners == {k \in 1..Len(run.output) : run.output[k].kind = "target"}
  IN IF banners = {} THEN <<>>
     ELSE SubSeq(run.output, SetMax(banners) + 1, Len(run.output))

CurrentOf(kind) == SelectSeq(CurrentLines, LAMBDA line : line.kind = kind)

\* the caller report of the target under analysis has just been printed
CallersReported == pc = "children"

\* C18: the percentage printed for an aggregated entry is its count divided by
\* the sum of the counts of all entries of the target (its qualifying samples),
\* so the percentages of a target's entries add up to 100% (up to the rounding
\* of each to two decimals).
C18_PercentOfTotal ==
  CallersReported =>
    LET rows == CurrentOf("entry")
        total == SumSeq(aggregated, "count")
    IN /\ \A k \in 1..Len(rows) :
            rows[k].percentage = Percent2(aggregated[k].count, total)
       /\ Len(rows) = Len(aggregated) =>
            LET sum == SumFrom([k \in 1..Len(rows) |-> rows[k].percentage], 1)
            IN sum >= 10000 - Len(rows) /\ sum <= 10000 + Len(rows)

\* C19: for a target, analyzeProfile shows exactly the first min(topN, number of
\* entries) entries of the ranked list; the summary is taken over all entries:
\* its sample total is the number of call stacks returned by buildCallStack and
\* its time total the sum of their time deltas.
C19_ShownAndSummary ==
  CallersReported =>
    LET rows == CurrentOf("entry")
        summary == CurrentOf("summary")
        stacks == BuildCallStack(profile, target)
        ranked == AggregateCallStacks(stacks)
        topN == run.options.top
    IN /\ Len(rows) = IF topN < Len(ranked) THEN topN ELSE Len(ranked)
       /\ \A k \in 1..Len(rows) :
            /\ rows[k].rank = k
            /\ rows[k].count = ranked[k].count
            /\ rows[k].stack = ranked[k].stack
       /\ Len(summary) = 1
       /\ summary[1].unique = Len(ranked)
       /\ summary[1].totalSamples = Len(stacks)
       /\ summary[1].totalTime = SumSeq(stacks, "timeDelta")

\* a caller report with --top 1 of a target that has two entries
C19_Witness ==
  /\ CallersReported
  /\ run.options.top = 1
  /\ Len(aggregated) >= 2
  /\ Len(CurrentOf("entry")) = 1

\* the descendants of t that hold at least one sample
SampledDescendants(prof, t) ==
  {d \in ReachByEdges(prof, t) : CountIn(ProfileSamples(prof), d) > 0}

\* rows has one row for each of the min(topN, number) most sampled descendants
\* of t, each with its number of sample positions, by sampleCount descending
ChildRowsAsClaimed(rows, prof, t, topN) ==
  LET sampled == SampledDescendants(prof, t)
      shown == {rows[k].index : k \in 1..Len(rows)}
  IN /\ shown \subseteq sampled
     /\ \A j, k \in 1..Len(rows) : j < k =>
          /\ rows[j].index # rows[k].index
          /\ rows[j].sampleCount >= rows[k].sampleCount
     /\ \A k \in 1..Len(rows) :
          rows[k].sampleCount = CountIn(ProfileSamples(prof), rows[k].index)
     /\ Len(rows) = IF topN < Cardinality(sampled) THEN topN ELSE Cardinality(sampled)
     /\ \A d \in sampled \ shown : \A k \in 1..Len(rows) :
          CountIn(ProfileSamples(prof), d) <= rows[k].sampleCount

\* C20: analyzeChildren returns one row for each descendant of the target that
\* has a sample, with that descendant's number of sample positions, sorted by
\* sampleCount descending and cut to topN; nothing else appears in the rows.
C20_ChildRows ==
  /\ pc # "threw"
  /\ pc = "children" =>
       LET children == AnalyzeChildren(profile, target, run.options.top)
       IN /\ ~children.threw
          /\ ChildRowsAsClaimed(children.rows, profile, target, run.options.top)

\* the index printed in the banner of the target whose report is the current one
CurrentTarget ==
  LET banners == {k \in 1..Len(run.output) : run.output[k].kind = "target"}
  IN run.output[SetMax(banners)].index

\* the number of samples that landed on any descendant of t
SampledDescendantTotal(prof, t) ==
  Cardinality({i \in 1..Len(ProfileSamples(prof)) :
                 ProfileSamples(prof)[i] \in ReachByEdges(prof, t)})

\* C21: in the callee report the percentage of a descendant and the line
\* "Total samples in called functions" are relative to the number of samples on
\* any descendant of the target, whatever the cut to topN lets through.
C21_PercentOfDescendantTotal ==
  CurrentOf("childSamples") # <<>> =>
    LET total == SampledDescendantTotal(profile, CurrentTarget)
        rows == CurrentOf("child")
    IN /\ CurrentOf("childSamples")[1].n = total
       /\ \A k \in 1..Len(rows) :
            rows[k].percentage = Percent2(rows[k].sampleCount, total)

\* C22: on profiles whose children lists or samples hold ids outside the node
\* table, or whose graph has cycles, buildNodeTree, getCallStackUp,
\* buildCallStack, aggregateCallStacks and analyzeChildren all return; no run of
\* main ends in an exception thrown by one of them.
C22_NoneThrows ==
  /\ pc # "threw"
  /\ pc = "children" => ~AnalyzeChildren(profile, target, run.options.top).threw

(***************************************************************************)
(* delete-docs-simple.ts.  deletion.requests are the document ids for      *)
(* which deleteViaMcp has posted a deleteDocument call, deletion.deleted   *)
(* those the server reported as deleted.                                   *)
(***************************************************************************)
\* the analyzer is not run
AnalyzerIdle ==
  /\ profile = EmptyProfile
  /\ target = 0
  /\ callStacks = <<>>
  /\ aggregated = <<>>
  /\ walk = IdleWalk
  /\ descend = IdleDescend
  /\ run = IdleRun

MaxDocs == 2

DefaultDriveId == "powerhouse"

\* the loop over args in main: --driveId takes the next argument when it is
\* truthy and skips it, --confirm sets confirm
RECURSIVE DeleteParseLoop(_, _, _)
DeleteParseLoop(args, i, opts) ==
  IF i > Len(args) THEN opts
  ELSE IF args[i] = "--driveId" /\ i + 1 <= Len(args) /\ args[i + 1] # ""
       THEN DeleteParseLoop(args, i + 2, [opts EXCEPT !.driveId = args[i + 1]])
       ELSE IF args[i] = "--confirm"
            THEN DeleteParseLoop(args, i + 1, [opts EXCEPT !.confirm = TRUE])
            ELSE DeleteParseLoop(args, i + 1, opts)

DeleteParseArgs(args) ==
  DeleteParseLoop(args, 1, [driveId |-> DefaultDriveId, confirm |-> FALSE])

DeleteArgLists ==
  {<<>>,
   <<"--confirm">>,
   <<"--driveId", "d">>,
   <<"--driveId", "d", "--confirm">>,
   <<"--confirm", "--driveId", "d">>,
   <<"--driveId", "--confirm">>,
   <<"--driveId">>,
   <<"--force">>}

\* the drive holds the documents 1..n
DriveDocuments(n) == [k \in 1..n |-> k]

InitDelete ==
  /\ AnalyzerIdle
  /\ pc = "deleteMain"
  /\ \E args \in DeleteArgLists, n \in 0..MaxDocs :
       deletion = [args |-> args, driveId |-> DefaultDriveId, confirm |-> FALSE,
                   drive |-> DriveDocuments(n), documentIds |-> <<>>, i |-> 0,
                   succeeded |-> 0, failed |-> 0, requests |-> <<>>, deleted |-> {},
                   ctrlC |-> FALSE]
  /\ creation = NoRun
  /\ packageJson = NoRun
  /\ verification = NoRun

\* lines 119-130: the arguments are read
DeleteParse ==
  /\ pc = "deleteMain"
  /\ LET opts == DeleteParseArgs(deletion.args)
     IN deletion' = [deletion EXCEPT !.driveId = opts.driveId, !.confirm = opts.confirm]
  /\ pc' = "deleteGet"
  /\ UNCHANGED <<creation, packageJson, verification>>
  /\ UNCHANGED analyzerVars

\* lines 133-145: getDocumentIds answers; no documents: return; without
\* --confirm: the warning and the two-second timer; with it: straight on
DeleteGetDocumentIds ==
  /\ pc = "deleteGet"
  /\ deletion' = [deletion EXCEPT !.documentIds = deletion.drive]
  /\ pc' = IF Len(deletion.drive) = 0 THEN "deleteExit"
           ELSE IF ~deletion.confirm THEN "deleteWait" ELSE "deleteLoop"
  /\ UNCHANGED <<creation, packageJson, verification>>
  /\ UNCHANGED analyzerVars

\* the GraphQL request of getDocumentIds rejects: main().catch, exit code 1
DeleteGetFails ==
  /\ pc = "deleteGet"
  /\ pc' = "deleteError"
  /\ UNCHANGED <<deletion, creation, packageJson, verification>>
  /\ UNCHANGED analyzerVars

\* line 144: the timer of 2000 ms fires and main goes on; no input is read
DeleteTimerFires ==
  /\ pc = "deleteWait"
  /\ pc' = "deleteLoop"
  /\ UNCHANGED <<deletion, creation, packageJson, verification>>
  /\ UNCHANGED analyzerVars

\* the operator presses Ctrl+C during the two seconds: the process is killed
DeleteCtrlC ==
  /\ pc = "deleteWait"
  /\ deletion' = [deletion EXCEPT !.ctrlC = TRUE]
  /\ pc' = "deleteKilled"
  /\ UNCHANGED <<creation, packageJson, verification>>
  /\ UNCHANGED analyzerVars

\* lines 151-162: one deleteViaMcp call; it posts the request and returns
\* whether the answer reports success (false for every failure, never a throw)
DeleteViaMcp ==
  /\ pc = "deleteLoop"
  /\ deletion.i < Len(deletion.documentIds)
  /\ \E success \in BOOLEAN :
       LET docId == deletion.documentIds[deletion.i + 1]
       IN deletion' = [deletion EXCEPT
                         !.i = @ + 1,
                         !.requests = Append(@, docId),
                         !.deleted = IF success THEN @ \cup {docId} ELSE @,
                         !.succeeded = IF success THEN @ + 1 ELSE @,
                         !.failed = IF success THEN @ ELSE @ + 1]
  /\ UNCHANGED <<pc, creation, packageJson, verification>>
  /\ UNCHANGED analyzerVars

\* lines 164-171: the loop is over and the result is printed
DeleteFinish ==
  /\ pc = "deleteLoop"
  /\ deletion.i = Len(deletion.documentIds)
  /\ pc' = "deleteExit"
  /\ UNCHANGED <<deletion, creation, packageJson, verification>>
  /\ UNCHANGED analyzerVars

NextDelete ==
  \/ DeleteParse \/ DeleteGetDocumentIds \/ DeleteGetFails
  \/ DeleteTimerFires \/ DeleteCtrlC \/ DeleteViaMcp \/ DeleteFinish

SpecDelete == InitDelete /\ [][NextDelete]_vars

\* C23: the deletion script posts no delete request unless confirmation was
\* given: in a run without --confirm, in which the operator did nothing, no
\* document is deleted.
C23_NoDeleteWithoutConfirm ==
  (pc \in {"deleteLoop", "deleteExit"} /\ ~deletion.confirm) =>
    (deletion.requests = <<>> /\ deletion.deleted = {})

(***************************************************************************)
(* create-documents-with-ops.ts.  The command line is a sequence of        *)
(* strings; creation.received[d] lists the operations document d has       *)
(* received, creation.call is the running addOperation call.               *)
(***************************************************************************)
StrOptEndpoint == <<"-", "-", "e", "n", "d", "p", "o", "i", "n", "t">>
StrOptDriveId == <<"-", "-", "d", "r", "i", "v", "e", "I", "d">>
StrD == <<"d">>

\* let numDocuments = 10; let numOperations = 5
DefaultNumDocuments == 10
DefaultNumOperations == 5

\* retries: number = 3, delayMs: number = 1000
DefaultRetries == 3
DefaultDelayMs == 1000

\* the list with its first two operations exchanged
OPERATIONS_DescriptionFirst ==
  <<"setPackageDescription", "setPackageName", "setPackageCategory",
    "setPackageAuthorName", "setPackageAuthorWebsite", "addPackageKeyword">>

\* OPERATIONS[k].name, k from 0
OPERATIONS ==
  <<"setPackageName", "setPackageDescription", "setPackageCategory",
    "setPackageAuthorName", "setPackageAuthorWebsite", "addPackageKeyword">>

\* !isNaN(Number(arg)) for the strings of the model: a decimal numeral, or the
\* empty string, which Number turns into 0
IsNumber(arg) == \A k \in 1..Len(arg) : \E d \in 1..10 : DigitChars[d] = arg[k]

\* Number(arg) of such a string
NumberOf(arg) == ParseInt(arg)

\* the for loop of main over args from position i (0-based); exit is "help"
\* once --help or -h is met
RECURSIVE CreateParseLoop(_, _, _)
CreateParseLoop(args, i, o) ==
  IF i >= Len(args) THEN [o EXCEPT !.exit = "none"]
  ELSE IF ArgAt(args, i) = StrOptEndpoint /\ IsSet(ArgAt(args, i + 1))
       THEN CreateParseLoop(args, i + 2, [o EXCEPT !.endpoint = ArgAt(args, i + 1)])
  ELSE IF ArgAt(args, i) = StrOptDriveId /\ IsSet(ArgAt(args, i + 1))
       THEN CreateParseLoop(args, i + 2, [o EXCEPT !.driveId = ArgAt(args, i + 1)])
  ELSE IF ArgAt(args, i) = StrOptHelp \/ ArgAt(args, i) = StrOptH
       THEN [o EXCEPT !.exit = "help"]
  ELSE IF IsNumber(ArgAt(args, i))
       THEN IF o.numDocuments = DefaultNumDocuments
            THEN CreateParseLoop(args, i + 1, [o EXCEPT !.numDocuments = NumberOf(ArgAt(args, i))])
            ELSE IF o.numOperations = DefaultNumOperations
                 THEN CreateParseLoop(args, i + 1,
                                      [o EXCEPT !.numOperations = NumberOf(ArgAt(args, i))])
                 ELSE CreateParseLoop(args, i + 1, o)
  ELSE CreateParseLoop(args, i + 1, o)

CreateParseArgs(args) ==
  CreateParseLoop(args, 0, [numDocuments |-> DefaultNumDocuments,
                            numOperations |-> DefaultNumOperations,
                            endpoint |-> <<>>, driveId |-> <<>>, exit |-> "none"])

\* Math.pow(2, n)
RECURSIVE Pow2(_)
Pow2(n) == IF n = 0 THEN 1 ELSE 2 * Pow2(n - 1)

\* a delay that grows by delayMs with every attempt
BackoffDelay_Linear(delayMs, attempt) == delayMs * (attempt + 1)

\* const backoffDelay = delayMs * Math.pow(2, attempt)
BackoffDelay(delayMs, attempt) == delayMs * Pow2(attempt)

NoCall == [operation |-> "none", attempt |-> 0, retries |-> 0, delayMs |-> 0,
           sent |-> 0, waits |-> <<>>, error |-> "none", result |-> "none"]

\* a call of addOperation at the top of its for loop
NewCall(operation, retries, delayMs) ==
  [operation |-> operation, attempt |-> 0, retries |-> retries, delayMs |-> delayMs,
   sent |-> 0, waits |-> <<>>, error |-> "none", result |-> "running"]

IdleCreation ==
  [args |-> <<>>, numDocuments |-> DefaultNumDocuments,
   numOperations |-> DefaultNumOperations, driveId |-> <<>>,
   documentIds |-> <<>>, received |-> <<>>, docIndex |-> 0, opIndex |-> 0,
   totalOperations |-> 0, anyFailed |-> FALSE, opRequests |-> 0,
   caller |-> "main", call |-> NoCall]

MaxCreate == 2

\* the numbers given on the command line
CreateNumbers == 0..MaxCreate \cup {DefaultNumOperations, DefaultNumDocuments}

CreateArgLists ==
  {<<>>, <<StrOptHelp>>, <<NumToStr(1), StrOptH>>, <<NumToStr(2), <<>>>>,
   <<StrOptDriveId, StrD, NumToStr(2), NumToStr(1)>>,
   <<NumToStr(1), StrOptEndpoint>>, <<StrOptDriveId, NumToStr(1)>>}
  \cup {<<NumToStr(a)>> : a \in CreateNumbers}
  \cup {<<NumToStr(a), NumToStr(b)>> : a \in CreateNumbers, b \in CreateNumbers}
  \cup {<<NumToStr(a), NumToStr(b), NumToStr(1)>> : a \in CreateNumbers, b \in CreateNumbers}

InitCreate ==
  /\ AnalyzerIdle
  /\ pc = "createMain"
  /\ \E args \in CreateArgLists : creation = [IdleCreation EXCEPT !.args = args]
  /\ deletion = NoRun
  /\ packageJson = NoRun
  /\ verification = NoRun

\* lines 234-275: the arguments are read; --help prints the usage and exits
CreateParse ==
  /\ pc = "createMain"
  /\ LET o == CreateParseArgs(creation.args)
     IN IF o.exit = "help"
        THEN pc' = "createHelp" /\ UNCHANGED creation
        ELSE /\ pc' = "createDocs"
             /\ creation' = [creation EXCEPT !.numDocuments = o.numDocuments,
                                             !.numOperations = o.numOperations,
                                             !.driveId = o.driveId]
  /\ UNCHANGED <<deletion, packageJson, verification>>
  /\ UNCHANGED analyzerVars

\* lines 293-300: one createDocument request that succeeds
CreateDocument ==
  /\ pc = "createDocs"
  /\ Len(creation.documentIds) < creation.numDocuments
  /\ creation' = [creation EXCEPT !.documentIds = Append(@, Len(@) + 1),
                                  !.received = Append(@, <<>>)]
  /\ UNCHANGED <<pc, deletion, packageJson, verification>>
  /\ UNCHANGED analyzerVars

\* lines 301-304: the request fails and main rethrows
CreateDocumentFails ==
  /\ pc = "createDocs"
  /\ Len(creation.documentIds) < creation.numDocuments
  /\ creation' = [creation EXCEPT !.anyFailed = TRUE]
  /\ pc' = "createError"
  /\ UNCHANGED <<deletion, packageJson, verification>>
  /\ UNCHANGED analyzerVars

\* lines 306-313: the creation loop is over, the loop over documentIds starts
CreateDocumentsDone ==
  /\ pc = "createDocs"
  /\ Len(creation.documentIds) >= creation.numDocuments
  /\ pc' = "createOps"
  /\ UNCHANGED <<creation, deletion, packageJson, verification>>
  /\ UNCHANGED analyzerVars

\* lines 316-318 (opIndex 0: OPERATIONS[0], sent unconditionally) and lines
\* 330-334 (opIndex from 1 while opIndex < numOperations): addOperation is
\* called with its default retries and delayMs
CallAddOperation ==
  /\ pc = "createOps"
  /\ creation.docIndex < Len(creation.documentIds)
  /\ creation.opIndex = 0 \/ creation.opIndex < creation.numOperations
  /\ creation' = [creation EXCEPT
                    !.call = NewCall(OPERATIONS[(creation.opIndex % Len(OPERATIONS)) + 1],
                                     DefaultRetries, DefaultDelayMs)]
  /\ pc' = "addOperation"
  /\ UNCHANGED <<deletion, packageJson, verification>>
  /\ UNCHANGED analyzerVars

\* lines 313 and 330: the inner loop is over, the next document is taken
NextDocument ==
  /\ pc = "createOps"
  /\ creation.docIndex < Len(creation.documentIds)
  /\ creation.opIndex >= 1 /\ creation.opIndex >= creation.numOperations
  /\ creation' = [creation EXCEPT !.docIndex = @ + 1, !.opIndex = 0]
  /\ UNCHANGED <<pc, deletion, packageJson, verification>>
  /\ UNCHANGED analyzerVars

\* lines 356-364: the totals are printed
CreateFinish ==
  /\ pc = "createOps"
  /\ creation.docIndex = Len(creation.documentIds)
  /\ pc' = "createExit"
  /\ UNCHANGED <<creation, deletion, packageJson, verification>>
  /\ UNCHANGED analyzerVars

\* addOperation has returned or thrown with the call record c: main counts the
\* operation (lines 319, 335) or rethrows (lines 326, 352); a call made
\* directly just ends
AfterCall(c) ==
  IF creation.caller = "main"
  THEN IF c.result = "returned"
       THEN /\ creation' = [creation EXCEPT
                              !.call = c,
                              !.opRequests = @ + (c.sent - creation.call.sent),
                              !.totalOperations = @ + 1,
                              !.received[creation.docIndex + 1] = Append(@, c.operation),
                              !.opIndex = @ + 1]
            /\ pc' = "createOps"
       ELSE /\ creation' = [creation EXCEPT
                              !.call = c, !.anyFailed = TRUE,
                              !.opRequests = @ + (c.sent - creation.call.sent)]
            /\ pc' = IF c.result = "threw" THEN "createError" ELSE "addOperation"
  ELSE /\ creation' = [creation EXCEPT
                         !.call = c,
                         !.anyFailed = @ \/ c.error # "none",
                         !.opRequests = @ + (c.sent - creation.call.sent)]
       /\ pc' = IF c.result = "running" THEN "addOperation" ELSE c.result

\* line 165 with attempt >= retries: the for loop ends without a request and
\* addOperation returns
AddOperationLoopEnds ==
  /\ pc = "addOperation"
  /\ creation.call.attempt >= creation.call.retries
  /\ AfterCall([creation.call EXCEPT !.result = "returned"])
  /\ UNCHANGED <<deletion, packageJson, verification>>
  /\ UNCHANGED analyzerVars

\* lines 166-209: the request succeeds, return
AttemptSucceeds ==
  /\ pc = "addOperation"
  /\ creation.call.attempt < creation.call.retries
  /\ AfterCall([creation.call EXCEPT !.sent = @ + 1, !.result = "returned"])
  /\ UNCHANGED <<deletion, packageJson, verification>>
  /\ UNCHANGED analyzerVars

\* lines 210-225: a connection error before the last attempt: wait
\* delayMs * 2^attempt and continue
AttemptRetries ==
  /\ pc = "addOperation"
  /\ creation.call.attempt < creation.call.retries
  /\ creation.call.attempt < creation.call.retries - 1
  /\ AfterCall([creation.call EXCEPT
                  !.sent = @ + 1,
                  !.error = "connection",
                  !.waits = Append(@, BackoffDelay(creation.call.delayMs,
                                                   creation.call.attempt)),
                  !.attempt = @ + 1])
  /\ UNCHANGED <<deletion, packageJson, verification>>
  /\ UNCHANGED analyzerVars

\* lines 226-227: another error, or a connection error on the last attempt: throw
AttemptThrows ==
  /\ pc = "addOperation"
  /\ creation.call.attempt < creation.call.retries
  /\ \E kind \in {"connection", "other"} :
       /\ kind = "other" \/ creation.call.attempt >= creation.call.retries - 1
       /\ AfterCall([creation.call EXCEPT
                       !.sent = @ + 1, !.error = kind, !.result = "threw"])
  /\ UNCHANGED <<deletion, packageJson, verification>>
  /\ UNCHANGED analyzerVars

NextCreate ==
  \/ CreateParse \/ CreateDocument \/ CreateDocumentFails \/ CreateDocumentsDone
  \/ CallAddOperation \/ NextDocument \/ CreateFinish
  \/ AttemptSucceeds \/ AttemptRetries \/ AttemptThrows

SpecCreate == InitCreate /\ [][NextCreate]_vars

MaxRetries == 4

\* one call of addOperation with given retries and delayMs
InitAddOperation ==
  /\ AnalyzerIdle
  /\ pc = "addOperation"
  /\ \E k \in 1..Len(OPERATIONS), retries \in 0..MaxRetries,
        delayMs \in {DefaultDelayMs, DefaultDelayMs \div 2} :
       creation = [IdleCreation EXCEPT !.caller = "direct",
                                       !.call = NewCall(OPERATIONS[k], retries, delayMs)]
  /\ deletion = NoRun
  /\ packageJson = NoRun
  /\ verification = NoRun

NextAddOperation ==
  AddOperationLoopEnds \/ AttemptSucceeds \/ AttemptRetries \/ AttemptThrows

SpecAddOperation == InitAddOperation /\ [][NextAddOperation]_vars

\* the client awaits every request and timer; none is left pending for ever
SpecAddOperationFair == SpecAddOperation /\ WF_vars(NextAddOperation)

\* the numeric positional arguments of a command line in order: the value
\* taken by --endpoint or --driveId is not positional
RECURSIVE PositionalNumbers(_, _)
PositionalNumbers(args, i) ==
  IF i >= Len(args) THEN <<>>
  ELSE IF ArgAt(args, i) \in {StrOptEndpoint, StrOptDriveId} /\ IsSet(ArgAt(args, i + 1))
       THEN PositionalNumbers(args, i + 2)
  ELSE IF IsNumber(ArgAt(args, i))
       THEN <<NumberOf(ArgAt(args, i))>> \o PositionalNumbers(args, i + 1)
  ELSE PositionalNumbers(args, i + 1)

\* C24: after the arguments are read, the number of documents is the first
\* numeric positional argument and the number of operations per document the
\* second, whatever their values; the arguments 10 5 give 10 and 5.
C24_PositionalCounts ==
  pc = "createDocs" =>
    LET nums == PositionalNumbers(creation.args, 0)
    IN /\ Len(nums) >= 1 => creation.numDocuments = nums[1]
       /\ Len(nums) >= 2 => creation.numOperations = nums[2]

\* no request of the run has failed
NoRequestFailed == ~creation.anyFailed

\* main has printed its totals after a run without a failed request
CreatedAll == pc = "createExit" /\ creation.caller = "main" /\ NoRequestFailed

\* no operation request is sent while documents are still to be created
DocumentsBeforeOperations ==
  creation.opRequests > 0 => Len(creation.documentIds) = creation.numDocuments

\* every document has received exactly k operations, the first of them
\* setPackageName, and the total is the number of documents times k
EachReceived(k) ==
  /\ Len(creation.documentIds) = creation.numDocuments
  /\ \A d \in 1..Len(creation.documentIds) :
       /\ Len(creation.received[d]) = k
       /\ k > 0 => creation.received[d][1] = "setPackageName"
  /\ creation.totalOperations = creation.numDocuments * k

CallEnded == pc \in {"returned", "threw"}

\* at most retries requests, none after the call has ended with the first
\* success or a throw; a further attempt only after a connection error on an
\* attempt that is not the last, after a wait of delayMs * 2^attempt; any other
\* error and a connection error on the last attempt are thrown at once
RetryPolicy ==
  LET c == creation.call
  IN /\ c.sent <= c.retries
     /\ Len(c.waits) = c.attempt
     /\ \A k \in 1..Len(c.waits) : c.waits[k] = c.delayMs * 2^(k - 1)
     /\ pc = "addOperation" => c.sent = c.attempt
     /\ (pc = "addOperation" /\ c.attempt > 0) =>
          (c.error = "connection" /\ c.attempt <= c.retries - 1)
     /\ pc = "returned" => (c.sent = c.attempt + 1 \/ (c.retries = 0 /\ c.sent = 0))
     /\ pc = "threw" =>
          /\ c.sent = c.attempt + 1
          /\ c.error = "other" \/ (c.error = "connection" /\ c.attempt = c.retries - 1)

\* a call with the default retries and delayMs in which every attempt met a
\* connection error
DefaultCallExhausted ==
  /\ pc = "threw"
  /\ creation.call.retries = DefaultRetries
  /\ creation.call.delayMs = DefaultDelayMs
  /\ creation.call.error = "connection"

SCRIPTS_TO_ADD ==
  <<[key |-> "create-docs", value |-> "tsx scripts/create-documents-with-ops.ts"],
    [key |-> "delete-docs-simple", value |-> "tsx scripts/delete-docs-simple.ts"],
    [key |-> "list-docs", value |-> "tsx scripts/list-documents.ts"],
    [key |-> "verify-ops", value |-> "tsx scripts/verify-operations.ts"],
    [key |-> "profile-ts", value |-> "./scripts/profile-ts-script.sh"],
    [key |-> "analyze-profile", value |-> "node scripts/analyze-cpu-profile.js"]>>

\* key in obj
ObjHas(obj, key) == \E k \in 1..Len(obj) : obj[k].key = key

\* obj[key] of a key that is in obj
ObjGet(obj, key) == obj[CHOOSE k \in 1..Len(obj) : obj[k].key = key].value

\* the property is always added at the end
ObjSet_Append(obj, key, value) == Append(obj, [key |-> key, value |-> value])

\* obj[key] = value: an existing property keeps its place, a new one goes last
ObjSet(obj, key, value) ==
  IF ObjHas(obj, key)
  THEN [k \in 1..Len(obj) |-> IF obj[k].key = key THEN [key |-> key, value |-> value]
                               ELSE obj[k]]
  ELSE Append(obj, [key |-> key, value |-> value])

\* the object built from the members written from position k on
RECURSIVE ParseMembers(_, _, _)
ParseMembers(members, k, obj) ==
  IF k > Len(members) THEN obj
  ELSE ParseMembers(members, k + 1, ObjSet(obj, members[k].key, members[k].value))

\* JSON.parse of a value: an object value is built member by member
JsonParseValue(v) ==
  IF v.kind = "object" THEN [kind |-> "object", members |-> ParseMembers(v.members, 1, <<>>)]
  ELSE v

\* JSON.parse(packageJsonContent)
JsonParse(text) ==
  LET top == ParseMembers(text.members, 1, <<>>)
  IN [k \in 1..Len(top) |-> [key |-> top[k].key, value |-> JsonParseValue(top[k].value)]]

\* JSON.stringify(packageJson, null, 2) + "\n"
JsonStringify(obj) == [layout |-> "indent2", members |-> obj]

\* !packageJson.scripts: the property is absent or null
ScriptsMissing(obj) == ~ObjHas(obj, "scripts") \/ ObjGet(obj, "scripts").kind = "null"

\* the for loop of main from entry k on: r holds scripts, added, updated, skipped
RECURSIVE AddScriptsLoop(_, _)
AddScriptsLoop(k, r) ==
  IF k > Len(SCRIPTS_TO_ADD) THEN r
  ELSE LET scriptName == SCRIPTS_TO_ADD[k].key
           scriptCommand == SCRIPTS_TO_ADD[k].value
       IN IF ~ObjHas(r.scripts, scriptName)
          THEN AddScriptsLoop(k + 1, [r EXCEPT !.scripts = ObjSet(@, scriptName, scriptCommand),
                                               !.added = Append(@, scriptName)])
          ELSE IF ObjGet(r.scripts, scriptName) # scriptCommand
          THEN AddScriptsLoop(k + 1, [r EXCEPT !.scripts = ObjSet(@, scriptName, scriptCommand),
                                               !.updated = Append(@, scriptName)])
          ELSE AddScriptsLoop(k + 1, [r EXCEPT !.skipped = Append(@, scriptName)])

\* main: the text written and the three lists of the summary
AddNpmScriptsMain(text) ==
  LET parsed == JsonParse(text)
      withScripts == IF ScriptsMissing(parsed)
                     THEN ObjSet(parsed, "scripts", [kind |-> "object", members |-> <<>>])
                     ELSE parsed
      r == AddScriptsLoop(1, [scripts |-> ObjGet(withScripts, "scripts").members,
                              added |-> <<>>, updated |-> <<>>, skipped |-> <<>>])
      result == ObjSet(withScripts, "scripts", [kind |-> "object", members |-> r.scripts])
  IN [text |-> JsonStringify(result), added |-> r.added, updated |-> r.updated,
      skipped |-> r.skipped]

MaxRuns == 2

StrValue(str) == [kind |-> "string", text |-> str]

\* what package.json holds for one of the six scripts before the first run
ScriptStates == {"absent", "same", "other"}

\* the members of a scripts object: a script of the project first (written
\* twice when twice is set), then the six scripts that are present, last first
ScriptMembers(have, twice) ==
  LET present == SelectSeq([k \in 1..Len(SCRIPTS_TO_ADD) |-> Len(SCRIPTS_TO_ADD) + 1 - k],
                           LAMBDA k : have[k] # "absent")
  IN (IF twice THEN <<[key |-> "test", value |-> "jest --ci"]>> ELSE <<>>)
     \o <<[key |-> "test", value |-> "jest"]>>
     \o [j \in 1..Len(present) |->
           [key |-> SCRIPTS_TO_ADD[present[j]].key,
            value |-> IF have[present[j]] = "same" THEN SCRIPTS_TO_ADD[present[j]].value
                      ELSE "echo old"]]

\* a package.json text with name, scripts (when given) and version
PackageText(layout, scripts) ==
  [layout |-> layout,
   members |-> <<[key |-> "name", value |-> StrValue("app")]>>
               \o scripts
               \o <<[key |-> "version", value |-> StrValue("1.0.0")]>>]

InitNpm ==
  /\ AnalyzerIdle
  /\ pc = "npm"
  /\ \E layout \in {"indent2", "compact"} :
       \E text \in {PackageText(layout, <<>>),
                    PackageText(layout, <<[key |-> "scripts", value |-> [kind |-> "null"]]>>)}
               \cup {PackageText(layout,
                                 <<[key |-> "scripts",
                                    value |-> [kind |-> "object",
                                               members |-> ScriptMembers(have, twice)]]>>) :
                       have \in [1..Len(SCRIPTS_TO_ADD) -> ScriptStates], twice \in BOOLEAN} :
         packageJson = [text |-> text, original |-> text, afterFirst |-> text, runs |-> 0,
                        added |-> <<>>, updated |-> <<>>, skipped |-> <<>>]
  /\ deletion = NoRun
  /\ creation = NoRun
  /\ verification = NoRun

\* one run of the script: package.json is read, completed and written
RunAddNpmScripts ==
  /\ pc = "npm"
  /\ packageJson.runs < MaxRuns
  /\ LET result == AddNpmScriptsMain(packageJson.text)
     IN packageJson' = [packageJson EXCEPT
                          !.text = result.text,
                          !.afterFirst = IF packageJson.runs = 0 THEN result.text ELSE @,
                          !.runs = @ + 1,
                          !.added = result.added,
                          !.updated = result.updated,
                          !.skipped = result.skipped]
  /\ UNCHANGED <<pc, deletion, creation, verification>>
  /\ UNCHANGED analyzerVars

NextNpm == RunAddNpmScripts

SpecNpm == InitNpm /\ [][NextNpm]_vars

\* the names of SCRIPTS_TO_ADD in order
ScriptNames == [k \in 1..Len(SCRIPTS_TO_ADD) |-> SCRIPTS_TO_ADD[k].key]

\* the scripts object of a text, empty when the text has none
ScriptsOf(text) ==
  IF ScriptsMissing(JsonParse(text)) THEN <<>>
  ELSE ObjGet(JsonParse(text), "scripts").members

\* every script of a not named in SCRIPTS_TO_ADD and every other field of a
\* has the same value in b
KeepsOthers(a, b) ==
  /\ \A k \in 1..Len(JsonParse(a)) :
       JsonParse(a)[k].key # "scripts" =>
         /\ ObjHas(JsonParse(b), JsonParse(a)[k].key)
         /\ ObjGet(JsonParse(b), JsonParse(a)[k].key) = JsonParse(a)[k].value
  /\ \A k \in 1..Len(ScriptsOf(a)) :
       ~SeqHas(ScriptNames, ScriptsOf(a)[k].key) =>
         /\ ObjHas(ScriptsOf(b), ScriptsOf(a)[k].key)
         /\ ObjGet(ScriptsOf(b), ScriptsOf(a)[k].key) = ScriptsOf(a)[k].value

\* C27: a second run of add-npm-scripts leaves package.json as the first run
\* wrote it and adds and updates nothing: the six scripts are all skipped; the
\* other scripts and the other fields keep the values they had at the start.
C27_Idempotent ==
  /\ packageJson.runs >= 1 =>
       /\ KeepsOthers(packageJson.original, packageJson.text)
       /\ \A k \in 1..Len(SCRIPTS_TO_ADD) :
            /\ ObjHas(ScriptsOf(packageJson.text), SCRIPTS_TO_ADD[k].key)
            /\ ObjGet(ScriptsOf(packageJson.text), SCRIPTS_TO_ADD[k].key)
                 = SCRIPTS_TO_ADD[k].value
  /\ packageJson.runs >= 2 =>
       /\ packageJson.text = packageJson.afterFirst
       /\ packageJson.added = <<>>
       /\ packageJson.updated = <<>>
       /\ packageJson.skipped = ScriptNames

\* the second run on a file whose first run changed the layout, added a script
\* and updated another
C27_Witness ==
  /\ packageJson.runs = 2
  /\ packageJson.original.layout = "compact"
  /\ ~ObjHas(ScriptsOf(packageJson.original), "create-docs")
  /\ ObjHas(ScriptsOf(packageJson.original), "list-docs")
  /\ ObjGet(ScriptsOf(packageJson.original), "list-docs") = "echo old"
  /\ ObjGet(ScriptsOf(packageJson.original), "test") = "jest"
  /\ packageJson.text # packageJson.original
  /\ packageJson.skipped = ScriptNames

\* the sample positions (from 0) of prof that hold an id outside the node table
OutOfRangeSamples(prof) ==
  {i \in 0..(Len(ProfileSamples(prof)) - 1) :
     ProfileSamples(prof)[i + 1] >= Len(ProfileNodes(prof))}

\* C28: an id outside the node table is a dead end of the ancestor walk:
\* getCallStackUp started at it returns no frames and goes to no parent, so a
\* sample that carries such an id qualifies for no target.
C28_OutOfRangeIsDeadEnd ==
  pc = "children" =>
    /\ \A i \in OutOfRangeSamples(profile) :
         GetCallStackUp(ProfileNodes(profile),
                        BuildNodeTree(ProfileNodes(profile)).parentMap,
                        ProfileSamples(profile)[i + 1], DefaultMaxDepth) = <<>>
    /\ \A k \in 1..Len(callStacks) :
         callStacks[k].sampleIndex \notin OutOfRangeSamples(profile)

\* main has read the profile and has left the branch on options.function
PastBranch == pc \in {"found", "target", "children", "threw", "exit"} /\ LinesOf("loading") # <<>>

\* the report by hit count alone has been printed
FallbackTaken == LinesOf("noFunction") # <<>>

\* a run with a file filter and no function filter
FileOnlyRun == PastBranch /\ ~IsSet(run.options.function) /\ IsSet(run.options.file)

\* C29 as stated: the report by hit count alone is taken only when neither
\* filter is given; with a file filter alone main matches the targets with
\* findTargetNodes (no function filter, url containing the file filter,
\* hitCount > 0) and analyses them.
C29_AsStated ==
  /\ FallbackTaken => (~IsSet(run.options.function) /\ ~IsSet(run.options.file))
  /\ FileOnlyRun =>
       /\ TargetsAsClaimed(profile, <<>>, run.options.file, run.targets)
       /\ pc = "exit" => (LinesOf("totalSamples") # <<>> \/ LinesOf("noNodesFound") # <<>>)

\* C29: the report by hit count alone is taken whenever no function filter is
\* given, with or without a file filter: with a file filter alone main lists
\* the nodes with hits whatever their url and matches and analyses no target;
\* findTargetNodes and the analysis run only when a function filter is given.
C29_FallbackWithoutFunction ==
  /\ (PastBranch /\ ~IsSet(run.options.function)) =>
       /\ FallbackTaken
       /\ run.targets = <<>>
       /\ TopRowsCutAt(profile, TopRows, TopFunctionsLimit)
       /\ NoAnalysis
  /\ (PastBranch /\ IsSet(run.options.function)) =>
       /\ ~FallbackTaken
       /\ TargetsAsClaimed(profile, run.options.function, run.options.file, run.targets)

\* a run with only --file that listed a node whose url does not hold the filter
C29_Witness ==
  /\ FileOnlyRun
  /\ FallbackTaken
  /\ \E k \in 1..Len(TopRows) :
       ~IsSubstring(run.options.file, profile.nodes[TopRows[k].index + 1].url)

(***************************************************************************)
(* verify-operations.ts.  verification.drive is what the server holds for  *)
(* the documents of the drive, in the order getVetraDocumentIds lists      *)
(* them; a document that the batch response does not return is "null".     *)
(***************************************************************************)
StrOptExpectedOps == <<"-", "-", "e", "x", "p", "e", "c", "t", "e", "d", "O", "p", "s">>
StrOptVerbose == <<"-", "-", "v", "e", "r", "b", "o", "s", "e">>
StrOptV == <<"-", "v">>
StrOptBatchSize == <<"-", "-", "b", "a", "t", "c", "h", "S", "i", "z", "e">>

\* let batchSize = 20
DefaultBatchSize == 20

\* Math.min(batchSize, 50)
MaxAliases == 50

\* the for loop of main over args from position i (0-based); exit is "help"
\* after --help and "error" after a --batchSize below 1
RECURSIVE VerifyParseLoop(_, _, _)
VerifyParseLoop(args, i, o) ==
  IF i >= Len(args) THEN o
  ELSE IF ArgAt(args, i) = StrOptDriveId /\ IsSet(ArgAt(args, i + 1))
       THEN VerifyParseLoop(args, i + 2, [o EXCEPT !.driveId = ArgAt(args, i + 1)])
  ELSE IF ArgAt(args, i) = StrOptExpectedOps /\ IsSet(ArgAt(args, i + 1))
       THEN VerifyParseLoop(args, i + 2,
                            [o EXCEPT !.expectedOps = <<ParseInt(ArgAt(args, i + 1))>>])
  ELSE IF ArgAt(args, i) = StrOptVerbose \/ ArgAt(args, i) = StrOptV
       THEN VerifyParseLoop(args, i + 1, [o EXCEPT !.verbose = TRUE])
  ELSE IF ArgAt(args, i) = StrOptBatchSize /\ IsSet(ArgAt(args, i + 1))
       THEN IF ParseInt(ArgAt(args, i + 1)) < 1
            THEN [o EXCEPT !.batchSize = ParseInt(ArgAt(args, i + 1)), !.exit = "error"]
            ELSE VerifyParseLoop(args, i + 2,
                                 [o EXCEPT !.batchSize = ParseInt(ArgAt(args, i + 1))])
  ELSE IF ArgAt(args, i) = StrOptHelp \/ ArgAt(args, i) = StrOptH
       THEN [o EXCEPT !.exit = "help"]
  ELSE VerifyParseLoop(args, i + 1, o)

\* expectedOps is null (the empty sequence) or a number (a sequence of one)
VerifyParseArgs(args) ==
  VerifyParseLoop(args, 0, [driveId |-> <<>>, expectedOps |-> <<>>, verbose |-> FALSE,
                            batchSize |-> DefaultBatchSize, exit |-> "none"])

\* processDocument: null for a document the response does not hold
ProcessDocument(id, doc) ==
  IF doc.kind = "null" THEN <<>>
  ELSE <<[id |-> id, revision |-> doc.revision, operationsCount |-> doc.operations,
          hasErrors |-> doc.errors > 0, errorCount |-> doc.errors]>>

\* the results of one answered batch query: the processed documents in order
RECURSIVE ProcessBatch(_, _, _)
ProcessBatch(drive, from, to) ==
  IF from > to THEN <<>>
  ELSE ProcessDocument(from, drive[from]) \o ProcessBatch(drive, from + 1, to)

\* the verdict printed at the end of main (lines 431-437)
Verdict(results) ==
  LET docsWithoutRevisions == Cardinality({k \in 1..Len(results) : results[k].revision = 0})
      docsWithErrors == Cardinality({k \in 1..Len(results) : results[k].hasErrors})
  IN IF docsWithoutRevisions = 0 /\ docsWithErrors = 0 THEN "success"
     ELSE IF docsWithoutRevisions > 0 THEN "noRevisions"
     ELSE "errors"

MaxVerifyDocs == 3

\* what the server holds for a document: applied and clean, never applied,
\* applied with an operation error, or not returned
DocStates ==
  {[kind |-> "doc", revision |-> 1, operations |-> 1, errors |-> 0],
   [kind |-> "doc", revision |-> 0, operations |-> 0, errors |-> 0],
   [kind |-> "doc", revision |-> 2, operations |-> 2, errors |-> 1],
   [kind |-> "null"]}

VerifyArgLists ==
  {<<>>, <<StrOptBatchSize, NumToStr(1)>>, <<StrOptBatchSize, NumToStr(2)>>,
   <<StrOptBatchSize, NumToStr(0)>>, <<StrOptHelp>>,
   <<StrOptDriveId, StrD, StrOptExpectedOps, NumToStr(1), StrOptV>>}

InitVerify ==
  /\ AnalyzerIdle
  /\ pc = "verifyMain"
  /\ \E args \in VerifyArgLists, drive \in SeqsUpTo(DocStates, MaxVerifyDocs) :
       verification = [args |-> args, batchSize |-> DefaultBatchSize, drive |-> drive,
                       documents |-> <<>>, i |-> 0, results |-> <<>>, failed |-> 0,
                       verdict |-> "none"]
  /\ deletion = NoRun
  /\ creation = NoRun
  /\ packageJson = NoRun

\* lines 172-225: the arguments are read
VerifyParse ==
  /\ pc = "verifyMain"
  /\ LET o == VerifyParseArgs(verification.args)
     IN /\ verification' = [verification EXCEPT !.batchSize = o.batchSize]
        /\ pc' = IF o.exit = "help" THEN "verifyHelp"
                 ELSE IF o.exit = "error" THEN "verifyError"
                 ELSE "verifyList"
  /\ UNCHANGED <<deletion, creation, packageJson>>
  /\ UNCHANGED analyzerVars

\* lines 237-244: getVetraDocumentIds answers; no documents: return
VerifyGetDocuments ==
  /\ pc = "verifyList"
  /\ verification' = [verification EXCEPT
                        !.documents = [k \in 1..Len(verification.drive) |-> k]]
  /\ pc' = IF Len(verification.drive) = 0 THEN "verifyExit" ELSE "verifyFetch"
  /\ UNCHANGED <<deletion, creation, packageJson>>
  /\ UNCHANGED analyzerVars

\* the request of getVetraDocumentIds rejects: main().catch, exit code 1
VerifyGetDocumentsFails ==
  /\ pc = "verifyList"
  /\ pc' = "verifyError"
  /\ UNCHANGED <<verification, deletion, creation, packageJson>>
  /\ UNCHANGED analyzerVars

\* const queryBatchSize = Math.min(batchSize, 50)
QueryBatchSize ==
  IF verification.batchSize < MaxAliases THEN verification.batchSize ELSE MaxAliases

\* the last position (from 1) of the batch that starts after position i: all
\* documents in the single query of line 258, a slice in the loop of line 262
BatchEnd ==
  IF verification.i + QueryBatchSize < Len(verification.documents)
  THEN verification.i + QueryBatchSize
  ELSE Len(verification.documents)

\* lines 255-272 with getAllDocumentDetails answered: the processed documents
\* of the batch are appended to results
VerifyFetchBatch ==
  /\ pc = "verifyFetch"
  /\ verification.i < Len(verification.documents)
  /\ verification' = [verification EXCEPT
                        !.results = @ \o ProcessBatch(verification.drive,
                                                      verification.i + 1, BatchEnd),
                        !.i = @ + QueryBatchSize]
  /\ UNCHANGED <<pc, deletion, creation, packageJson>>
  /\ UNCHANGED analyzerVars

\* the batch query rejects: getAllDocumentDetails logs the error and returns
\* [] (lines 165-168), and main goes on
VerifyFetchBatchFails ==
  /\ pc = "verifyFetch"
  /\ verification.i < Len(verification.documents)
  /\ verification' = [verification EXCEPT !.failed = @ + 1, !.i = @ + QueryBatchSize]
  /\ UNCHANGED <<pc, deletion, creation, packageJson>>
  /\ UNCHANGED analyzerVars

\* lines 274-442: the totals and the verdict are printed
VerifyReport ==
  /\ pc = "verifyFetch"
  /\ verification.i >= Len(verification.documents)
  /\ verification' = [verification EXCEPT !.verdict = Verdict(verification.results)]
  /\ pc' = "verifyExit"
  /\ UNCHANGED <<deletion, creation, packageJson>>
  /\ UNCHANGED analyzerVars

NextVerify ==
  \/ VerifyParse \/ VerifyGetDocuments \/ VerifyGetDocumentsFails
  \/ VerifyFetchBatch \/ VerifyFetchBatchFails \/ VerifyReport

SpecVerify == InitVerify /\ [][NextVerify]_vars

\* C30: the success verdict is printed only if every document of the drive was
\* fetched and each has a revision above 0 and no operation error; after a
\* failed batch query it is not printed.
C30_SuccessOnlyIfAllVerified ==
  (pc = "verifyExit" /\ verification.verdict = "success") =>
    /\ verification.failed = 0
    /\ Len(verification.results) = Len(verification.documents)
    /\ \A k \in 1..Len(verification.drive) :
         /\ verification.drive[k].kind = "doc"
         /\ verification.drive[k].revision > 0
         /\ verification.drive[k].errors = 0

====
